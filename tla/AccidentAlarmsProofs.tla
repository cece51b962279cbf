------------------------- MODULE AccidentAlarmsProofs -------------------------
(***************************************************************************)
(* Proofs about AccidentAlarms, for every number of alarms, sweepers,      *)
(* detections and ages.  Rows only ever move on (Grows), so that what is   *)
(* known of a row when it is read stays known of it; the invariants say    *)
(* which row each reader holds (References), that an age without stalls    *)
(* and replays has one alarm (Calm), that the right to decide a hold is in *)
(* one place (Token), that the dedup key stands for an alarm (Dedup),      *)
(* that alarms are raised in the order of their ages (Order), and that no  *)
(* alarm is forgotten before it has been decided (Pursuit).                *)
(***************************************************************************)
EXTENDS AccidentAlarms, FiniteSetTheorems, TLAPS

-----------------------------------------------------------------------------
(* Types *)

Statuses == {"NONE", "OPEN", "ACKNOWLEDGED", "RESOLVED"}
RowType == [status : Statuses, version : Nat, seen : Nat]
JobPlaces == {"idle", "find", "bump", "supersede", "claim", "create", "release", "hold", "due"}
JobType == [pc : JobPlaces, open : Alerts \cup {None}, version : Nat, seen : Nat,
            id : Alerts \cup {None}]
ClaimPlaces == {"idle", "get", "del", "zrem", "find", "detail", "notify"}
Verdicts == {"drove_on", "stopped", "no_movement_reported", None}
ClaimType == [pc : ClaimPlaces, alert : Alerts \cup {None}, raw : Alerts \cup {None},
              verdict : Verdicts, version : Nat]
DeskType == [pc : {"idle", "update"}, alert : Alerts \cup {None},
             to : {"ACKNOWLEDGED", "RESOLVED", None}, version : Nat]
AuditType == [status : Statuses \cup {None}, actor : {"system", "operator", None}]

TypeOK ==
    /\ age \in Nat /\ received \in Nat
    /\ alert \in [Alerts -> RowType] /\ audit \in [Alerts -> AuditType]
    /\ dedup \in BOOLEAN /\ hold \in Alerts \cup {None} /\ due \in {"set", "passed", None}
    /\ job \in JobType /\ claim \in [Deciders -> ClaimType] /\ desk \in DeskType
    /\ notified \in [Alerts -> Nat] /\ cancelled \subseteq Alerts
    /\ faults \in FaultSets /\ troubles \in Nat

\* The types by group of variables, with what each place of a handler has read.
ClockOK == age \in Nat /\ received \in Nat

RowsOK == alert \in [Alerts -> RowType] /\ audit \in [Alerts -> AuditType]

KeysOK == dedup \in BOOLEAN /\ hold \in Alerts \cup {None} /\ due \in {"set", "passed", None}

JobOK ==
    /\ job \in JobType
    /\ job.pc \in {"bump", "supersede"} => job.open \in Alerts
    /\ job.pc \in {"hold", "due"} => job.id \in Alerts

ClaimBound(c, d) ==
    /\ c \in ClaimType
    /\ c.pc = "idle" => c.alert = None /\ c.raw = None
    /\ c.pc \in {"find", "detail", "notify"} => c.alert \in Alerts
    /\ d = Positions /\ c.pc # "idle" => c.alert \in Alerts

ClaimsOK ==
    /\ claim \in [Deciders -> ClaimType]
    /\ \A d \in Deciders : ClaimBound(claim[d], d)

DeskOK ==
    /\ desk \in DeskType
    /\ desk.pc = "update" => desk.alert \in Alerts /\ desk.to \in {"ACKNOWLEDGED", "RESOLVED"}

ToldOK == notified \in [Alerts -> Nat] /\ cancelled \subseteq Alerts

WeatherOK == faults \in FaultSets /\ troubles \in Nat

TypeInv ==
    ClockOK /\ RowsOK /\ KeysOK /\ JobOK /\ ClaimsOK /\ DeskOK /\ ToldOK /\ WeatherOK

LEMMA TypeInit == Init => TypeInv
<1> SUFFICES ASSUME Init PROVE TypeInv
  OBVIOUS
<1>1. NoRow \in RowType /\ NoJob \in JobType /\ NoClaim \in ClaimType /\ NoRequest \in DeskType
  BY DEF NoRow, NoJob, NoClaim, NoRequest, RowType, JobType, ClaimType, DeskType, Statuses,
         JobPlaces, ClaimPlaces, Verdicts
<1>2. [status |-> None, actor |-> None] \in AuditType
  BY DEF AuditType
<1>3. ClockOK /\ RowsOK /\ KeysOK /\ ToldOK /\ WeatherOK
  BY <1>1, <1>2 DEF Init, ClockOK, RowsOK, KeysOK, ToldOK, WeatherOK
<1>4. JobOK /\ DeskOK
  BY <1>1 DEF Init, JobOK, DeskOK, NoJob, NoRequest
<1>5. ClaimsOK
  BY <1>1 DEF Init, ClaimsOK, ClaimBound, NoClaim
<1> QED
  BY <1>3, <1>4, <1>5 DEF TypeInv

\* What is left alone keeps its type.
LEMMA TypeKept ==
  ASSUME TypeInv
  PROVE  /\ UNCHANGED clock => ClockOK'
         /\ UNCHANGED rows => RowsOK'
         /\ UNCHANGED keys => KeysOK'
         /\ UNCHANGED job => JobOK'
         /\ UNCHANGED claim => ClaimsOK'
         /\ UNCHANGED desk => DeskOK'
         /\ UNCHANGED told => ToldOK'
         /\ UNCHANGED weather => WeatherOK'
<1>1. UNCHANGED clock => ClockOK'
  BY DEF TypeInv, ClockOK, clock
<1>2. UNCHANGED rows => RowsOK'
  BY DEF TypeInv, RowsOK, rows
<1>3. UNCHANGED keys => KeysOK'
  BY DEF TypeInv, KeysOK, keys
<1>4. UNCHANGED job => JobOK'
  BY DEF TypeInv, JobOK
<1>5. UNCHANGED claim => ClaimsOK'
  BY DEF TypeInv, ClaimsOK
<1>6. UNCHANGED desk => DeskOK'
  BY DEF TypeInv, DeskOK
<1>7. UNCHANGED told => ToldOK'
  BY DEF TypeInv, ToldOK, told
<1>8. UNCHANGED weather => WeatherOK'
  BY DEF TypeInv, WeatherOK, weather
<1> QED
  BY ONLY <1>1, <1>2, <1>3, <1>4, <1>5, <1>6, <1>7, <1>8

\* A trouble is counted.
LEMMA TroubleType == ASSUME TypeInv, NEW kind, Trouble(kind) PROVE WeatherOK'
  BY DEF TypeInv, Trouble, WeatherOK

\* The rows after an INSERT or an UPDATE are rows.
LEMMA DetailType ==
  ASSUME TypeInv, NEW a \in Alerts, NEW version, updateDetail(a, version), UNCHANGED audit
  PROVE  RowsOK'
  BY DEF TypeInv, RowsOK, updateDetail, RowType

LEMMA StatusType ==
  ASSUME TypeInv, NEW a \in Alerts, NEW version, NEW to \in Statuses,
         NEW actor \in {"system", "operator"}, updateStatus(a, version, to, actor)
  PROVE  RowsOK'
<1>0. alert \in [Alerts -> RowType]
  BY DEF TypeInv, RowsOK
<1> DEFINE row == [alert[a] EXCEPT !.version = @ + 1, !.status = to]
<1>1. alert' \in [Alerts -> RowType]
  <2>1. row \in RowType
    <3> DEFINE bumped == [alert[a] EXCEPT !.version = @ + 1]
    <3>1. bumped \in RowType
      BY <1>0 DEF RowType
    <3>2. row = [bumped EXCEPT !.status = to]
      OBVIOUS
    <3> HIDE DEF row, bumped
    <3> QED
      BY <3>1, <3>2 DEF RowType
  <2>2. alert' \in {alert, [alert EXCEPT ![a] = row]}
    BY <1>0 DEF updateStatus
  <2> HIDE DEF row
  <2> QED
    BY ONLY <1>0, <2>1, <2>2
<1>2. [status |-> to, actor |-> actor] \in AuditType
  BY DEF AuditType
<1>3. audit' \in [Alerts -> AuditType]
  BY <1>2 DEF TypeInv, RowsOK, updateStatus
<1> QED
  BY <1>1, <1>3 DEF RowsOK

LEMMA CreateType ==
  ASSUME TypeInv, NEW a \in Alerts, NEW seen \in Nat, create(a, seen), UNCHANGED audit
  PROVE  RowsOK'
  BY DEF TypeInv, RowsOK, create, RowType, Statuses

\* The places a message may be at.
LEMMA JobIdle == ASSUME job' = NoJob PROVE JobOK'
  BY DEF JobOK, NoJob, JobType, JobPlaces

LEMMA JobFinds ==
  ASSUME NEW seen \in Nat, job' = [NoJob EXCEPT !.pc = "find", !.seen = seen] PROVE JobOK'
  BY DEF JobOK, NoJob, JobType, JobPlaces

LEMMA JobGoes ==
  ASSUME TypeInv, NEW pc \in {"claim", "create", "release"}, Goto(pc) PROVE JobOK'
  BY DEF TypeInv, JobOK, Goto, JobType, JobPlaces

\* A decider's claim changes alone.
LEMMA ClaimStep ==
  ASSUME TypeInv, NEW d \in Deciders, NEW c, ClaimBound(c, d), claim' = [claim EXCEPT ![d] = c]
  PROVE  ClaimsOK'
<1>1. claim \in [Deciders -> ClaimType] /\ \A e \in Deciders : ClaimBound(claim[e], e)
  BY DEF TypeInv, ClaimsOK
<1>2. c \in ClaimType
  BY DEF ClaimBound
<1> QED
  BY ONLY <1>1, <1>2, d \in Deciders, ClaimBound(c, d), claim' = [claim EXCEPT ![d] = c]
  DEF ClaimsOK

LEMMA ClaimIdle ==
  ASSUME TypeInv, NEW d \in Deciders, claim' = [claim EXCEPT ![d] = NoClaim] PROVE ClaimsOK'
<1>1. ClaimBound(NoClaim, d)
  BY DEF ClaimBound, NoClaim, ClaimType, ClaimPlaces, Verdicts
<1> QED
  BY <1>1, ClaimStep

-----------------------------------------------------------------------------
LEMMA TypeStep == TypeInv /\ [Next]_vars => TypeInv'
<1> SUFFICES ASSUME TypeInv, [Next]_vars PROVE TypeInv'
  OBVIOUS
<1>0. /\ UNCHANGED clock => ClockOK'
      /\ UNCHANGED rows => RowsOK'
      /\ UNCHANGED keys => KeysOK'
      /\ UNCHANGED job => JobOK'
      /\ UNCHANGED claim => ClaimsOK'
      /\ UNCHANGED desk => DeskOK'
      /\ UNCHANGED told => ToldOK'
      /\ UNCHANGED weather => WeatherOK'
  BY TypeKept
<1>a. job \in JobType /\ claim \in [Deciders -> ClaimType] /\ age \in Nat
  BY DEF TypeInv, JobOK, ClaimsOK, ClockOK
<1>1. ASSUME ReceiveAlarm PROVE TypeInv'
  <2>1. PICK seen \in {age, 0} : job' = [NoJob EXCEPT !.pc = "find", !.seen = seen]
    BY <1>1 DEF ReceiveAlarm
  <2>2. JobOK'
    BY <1>a, <2>1, JobFinds
  <2>3. ClockOK'
    BY <1>1 DEF ReceiveAlarm, ClockOK, TypeInv
  <2> QED
    BY <1>0, <1>1, <2>2, <2>3 DEF TypeInv, ReceiveAlarm
<1>2. ASSUME FindOpen PROVE TypeInv'
  <2>1. ASSUME Goto("claim") PROVE JobOK'
    BY <2>1, JobGoes
  <2>2. ASSUME NEW a \in Opened, NEW pc \in {"bump", "supersede"},
               job' = [job EXCEPT !.open = a, !.version = alert[a].version, !.pc = pc]
        PROVE  JobOK'
    <3>1. a \in Alerts /\ alert[a].version \in Nat
      BY DEF Opened, TypeInv, RowsOK, RowType
    <3> QED
      BY <1>a, <2>2, <3>1 DEF JobOK, JobType, JobPlaces
  <2>3. JobOK'
    BY <1>2, <2>1, <2>2 DEF FindOpen
  <2> QED
    BY <1>0, <1>2, <2>3 DEF TypeInv, FindOpen
<1>3. ASSUME Supersede PROVE TypeInv'
  <2>1. job.open \in Alerts
    BY <1>3 DEF Supersede, TypeInv, JobOK
  <2>2. RowsOK'
    BY <1>3, <2>1, StatusType DEF Supersede, Statuses
  <2>3. JobOK'
    BY <1>3, JobGoes DEF Supersede
  <2> QED
    BY <1>0, <1>3, <2>2, <2>3 DEF TypeInv, Supersede
<1>4. ASSUME Bump PROVE TypeInv'
  <2>1. job.open \in Alerts
    BY <1>4 DEF Bump, TypeInv, JobOK
  <2>2. RowsOK' /\ JobOK'
    BY <1>4, <2>1, DetailType, JobIdle DEF Bump
  <2> QED
    BY <1>0, <1>4, <2>2 DEF TypeInv, Bump
<1>5. ASSUME ClaimDedup PROVE TypeInv'
  <2>1. JobOK'
    BY <1>5, JobIdle, JobGoes DEF ClaimDedup
  <2>2. KeysOK'
    BY <1>5 DEF ClaimDedup, KeysOK, TypeInv
  <2> QED
    BY <1>0, <1>5, <2>1, <2>2 DEF TypeInv, ClaimDedup
<1>6. ASSUME Create PROVE TypeInv'
  <2>1. PICK a \in Fresh :
          /\ create(a, job.seen)
          /\ job' = IF job.seen = age THEN [job EXCEPT !.pc = "hold", !.id = a] ELSE NoJob
    BY <1>6 DEF Create
  <2>2. a \in Alerts /\ job.seen \in Nat
    BY <1>a DEF Fresh, JobType
  <2>3. RowsOK'
    BY <1>6, <2>1, <2>2, CreateType DEF Create
  <2>4. ASSUME job' = [job EXCEPT !.pc = "hold", !.id = a] PROVE JobOK'
    BY <1>a, <2>2, <2>4 DEF JobOK, JobType, JobPlaces
  <2>5. JobOK'
    BY <2>1, <2>4, JobIdle
  <2> QED
    BY <1>0, <1>6, <2>3, <2>5 DEF TypeInv, Create
<1>7. ASSUME ClearDedup PROVE TypeInv'
  <2>1. JobOK'
    BY <1>7, JobIdle DEF ClearDedup
  <2>2. KeysOK'
    BY <1>7 DEF ClearDedup, KeysOK, TypeInv
  <2> QED
    BY <1>0, <1>7, <2>1, <2>2 DEF TypeInv, ClearDedup
<1>8. ASSUME HoldAccident PROVE TypeInv'
  <2>1. JobOK'
    BY <1>8 DEF HoldAccident, Goto, TypeInv, JobOK, JobType, JobPlaces
  <2>2. KeysOK'
    BY <1>8 DEF HoldAccident, KeysOK, JobOK, TypeInv
  <2> QED
    BY <1>0, <1>8, <2>1, <2>2 DEF TypeInv, HoldAccident
<1>9. ASSUME SetDeadline PROVE TypeInv'
  <2>1. JobOK'
    BY <1>9, JobIdle DEF SetDeadline
  <2>2. KeysOK'
    BY <1>9 DEF SetDeadline, KeysOK, TypeInv
  <2> QED
    BY <1>0, <1>9, <2>1, <2>2 DEF TypeInv, SetDeadline
<1>10. ASSUME ReadHold PROVE TypeInv'
  <2>1. PICK verdict \in {"drove_on", "stopped"} :
          claim' = [claim EXCEPT ![Positions] =
                      [NoClaim EXCEPT !.pc = "get", !.alert = hold, !.verdict = verdict]]
    BY <1>10 DEF ReadHold
  <2>2. hold \in Alerts
    BY <1>10 DEF ReadHold, TypeInv, KeysOK
  <2>3. ClaimBound([NoClaim EXCEPT !.pc = "get", !.alert = hold, !.verdict = verdict], Positions)
    BY <2>2 DEF ClaimBound, NoClaim, ClaimType, ClaimPlaces, Verdicts
  <2>4. Positions \in Deciders
    BY DEF Deciders
  <2>5. ClaimsOK'
    BY <2>1, <2>3, <2>4, ClaimStep
  <2> QED
    BY <1>0, <1>10, <2>5 DEF TypeInv, ReadHold
<1>11. ASSUME NEW s \in Sweepers, SweepDue(s) PROVE TypeInv'
  <2>1. s \in Deciders /\ s # Positions
    BY NamesAssumption DEF Deciders
  <2>2. ClaimBound([NoClaim EXCEPT !.pc = "get", !.verdict = "no_movement_reported"], s)
    BY <2>1 DEF ClaimBound, NoClaim, ClaimType, ClaimPlaces, Verdicts
  <2>3. ClaimsOK'
    BY <1>11, <2>1, <2>2, ClaimStep DEF SweepDue
  <2> QED
    BY <1>0, <1>11, <2>3 DEF TypeInv, SweepDue
<1>12. ASSUME NEW d \in Deciders PROVE claim[d] \in ClaimType /\ ClaimBound(claim[d], d)
  BY DEF TypeInv, ClaimsOK
<1>13. ASSUME NEW d \in Deciders, GetHold(d) PROVE TypeInv'
  <2>1. hold \in Alerts \cup {None}
    BY DEF TypeInv, KeysOK
  <2>2. ClaimBound([claim[d] EXCEPT !.pc = "del", !.raw = hold], d)
    BY <1>12, <1>13, <2>1 DEF GetHold, At, ClaimBound, ClaimType, ClaimPlaces
  <2>3. claim' = [claim EXCEPT ![d] = [claim[d] EXCEPT !.pc = "del", !.raw = hold]]
    BY <1>13, <1>a DEF GetHold
  <2>4. ClaimsOK'
    BY <2>2, <2>3, ClaimStep
  <2> QED
    BY <1>0, <1>13, <2>4 DEF TypeInv, GetHold
<1>14. ASSUME NEW d \in Deciders, DelHold(d) PROVE TypeInv'
  <2> DEFINE raw == IF hold = None THEN None ELSE claim[d].raw
  <2>1. raw \in Alerts \cup {None}
    BY <1>12 DEF ClaimType
  <2>2. claim' = [claim EXCEPT ![d] = [claim[d] EXCEPT !.pc = "zrem", !.raw = raw]]
    BY <1>14, <1>a DEF DelHold
  <2> HIDE DEF raw
  <2>3. ClaimBound([claim[d] EXCEPT !.pc = "zrem", !.raw = raw], d)
    BY <1>12, <1>14, <2>1 DEF DelHold, At, ClaimBound, ClaimType, ClaimPlaces
  <2>4. ClaimsOK'
    BY <2>2, <2>3, ClaimStep
  <2>5. KeysOK'
    BY <1>14 DEF DelHold, TypeInv, KeysOK
  <2> QED
    BY <1>0, <1>14, <2>4, <2>5 DEF TypeInv, DelHold
<1>15. ASSUME NEW d \in Deciders, ZremHold(d) PROVE TypeInv'
  <2>1. CASE claim[d].raw = None
    BY <1>0, <1>15, <2>1, ClaimIdle DEF TypeInv, ZremHold, KeysOK
  <2>2. CASE claim[d].raw # None
    <3>1. Finishes(d) \in Alerts
      <4>1. claim[d].raw \in Alerts
        BY <1>12, <2>2 DEF ClaimType
      <4>2. d \notin Sweepers => claim[d].alert \in Alerts
        BY <1>12, <1>15 DEF ZremHold, At, ClaimBound, Deciders
      <4> QED
        BY <4>1, <4>2 DEF Finishes
    <3>2. claim' = [claim EXCEPT ![d] = [claim[d] EXCEPT !.pc = "find", !.alert = Finishes(d)]]
      BY <1>15, <1>a, <2>2 DEF ZremHold
    <3>3. ClaimBound([claim[d] EXCEPT !.pc = "find", !.alert = Finishes(d)], d)
      BY <1>12, <3>1 DEF ClaimBound, ClaimType, ClaimPlaces
    <3>4. ClaimsOK'
      BY <3>2, <3>3, ClaimStep
    <3>5. KeysOK'
      BY <1>15 DEF ZremHold, TypeInv, KeysOK
    <3> QED
      BY <1>0, <1>15, <3>4, <3>5 DEF TypeInv, ZremHold
  <2> QED
    BY <2>1, <2>2
<1>16. ASSUME NEW d \in Deciders, FindHeld(d) PROVE TypeInv'
  <2>1. claim[d].alert \in Alerts
    BY <1>12, <1>16 DEF FindHeld, At, ClaimBound
  <2>2. alert[claim[d].alert].version \in Nat
    BY <2>1 DEF TypeInv, RowsOK, RowType
  <2>3. claim' = [claim EXCEPT ![d] = [claim[d] EXCEPT !.pc = "detail",
                                         !.version = alert[claim[d].alert].version]]
    BY <1>16, <1>a DEF FindHeld
  <2>4. ClaimBound([claim[d] EXCEPT !.pc = "detail", !.version = alert[claim[d].alert].version], d)
    BY <1>12, <2>1, <2>2 DEF ClaimBound, ClaimType, ClaimPlaces
  <2>5. ClaimsOK'
    BY <2>3, <2>4, ClaimStep
  <2> QED
    BY <1>0, <1>16, <2>5 DEF TypeInv, FindHeld
<1>17. ASSUME NEW d \in Deciders, Confirm(d) PROVE TypeInv'
  <2>1. claim[d].alert \in Alerts
    BY <1>12, <1>17 DEF Confirm, At, ClaimBound
  <2>2. RowsOK'
    BY <1>17, <2>1, DetailType DEF Confirm
  <2>3. ToldOK'
    BY <1>17, <2>1 DEF Confirm, TypeInv, ToldOK
  <2>4. ASSUME To(d, "notify") PROVE ClaimsOK'
    <3>1. claim' = [claim EXCEPT ![d] = [claim[d] EXCEPT !.pc = "notify"]]
      BY <2>4, <1>a DEF To
    <3>2. ClaimBound([claim[d] EXCEPT !.pc = "notify"], d)
      BY <1>12, <2>1 DEF ClaimBound, ClaimType, ClaimPlaces
    <3> QED
      BY <3>1, <3>2, ClaimStep
  <2>5. ClaimsOK'
    BY <1>17, <2>4, ClaimIdle DEF Confirm
  <2> QED
    BY <1>0, <1>17, <2>2, <2>3, <2>5 DEF TypeInv, Confirm
<1>18. ASSUME NEW d \in Deciders, Notify(d) PROVE TypeInv'
  <2>1. ToldOK'
    <3>1. claim[d].alert \in Alerts
      BY <1>12, <1>18 DEF Notify, At, ClaimBound
    <3>2. /\ notified' = [notified EXCEPT ![claim[d].alert] = @ + 1] /\ cancelled' = cancelled
          /\ notified \in [Alerts -> Nat] /\ cancelled \subseteq Alerts
      BY <1>18 DEF Notify, TypeInv, ToldOK
    <3> QED
      BY ONLY <3>1, <3>2 DEF ToldOK
  <2>2. ClaimsOK'
    BY <1>18, ClaimIdle DEF Notify
  <2> QED
    BY <1>0, <1>18, <2>1, <2>2 DEF TypeInv, Notify
<1>19. ASSUME NEW a \in Alerts, NEW to \in {"ACKNOWLEDGED", "RESOLVED"}, Request(a, to)
       PROVE  TypeInv'
  <2>1. alert[a].version \in Nat
    BY DEF TypeInv, RowsOK, RowType
  <2>2. DeskOK'
    BY <1>19, <2>1 DEF Request, DeskOK, DeskType
  <2>3. WeatherOK'
    BY <1>19, TroubleType DEF Request
  <2> QED
    BY <1>0, <1>19, <2>2, <2>3 DEF TypeInv, Request
<1>20. ASSUME Respond PROVE TypeInv'
  <2>1. desk.alert \in Alerts /\ desk.to \in Statuses
    BY <1>20 DEF Respond, TypeInv, DeskOK, Statuses
  <2>2. RowsOK'
    BY <1>20, <2>1, StatusType DEF Respond
  <2>3. DeskOK'
    BY <1>20 DEF Respond, DeskOK, NoRequest, DeskType
  <2> QED
    BY <1>0, <1>20, <2>2, <2>3 DEF TypeInv, Respond
<1>21. ASSUME ExpireDedup \/ PassDeadline PROVE TypeInv'
  <2>1. KeysOK'
    BY <1>21 DEF ExpireDedup, PassDeadline, TypeInv, KeysOK
  <2> QED
    BY <1>0, <1>21, <2>1 DEF TypeInv, ExpireDedup, PassDeadline
<1>22. ASSUME NextAge PROVE TypeInv'
  <2>1. age' = age + 1 /\ dedup' = FALSE /\ UNCHANGED <<received, hold, due>>
    BY <1>22 DEF NextAge
  <2>2. KeysOK'
    BY <2>1 DEF TypeInv, KeysOK
  <2>3. ClockOK'
    BY <2>1 DEF TypeInv, ClockOK
  <2> QED
    BY <1>0, <1>22, <2>2, <2>3 DEF TypeInv, NextAge
<1>23. ASSUME CreateFails \/ ClaimDedupFails PROVE TypeInv'
  <2>1. JobOK' /\ WeatherOK'
    BY <1>23, JobGoes, TroubleType DEF CreateFails, ClaimDedupFails
  <2> QED
    BY <1>0, <1>23, <2>1 DEF TypeInv, CreateFails, ClaimDedupFails
<1>24. ASSUME HoldFails PROVE TypeInv'
  <2>1. JobOK' /\ WeatherOK'
    BY <1>24, JobIdle, TroubleType DEF HoldFails
  <2>2. ToldOK'
    <3>1. job.id \in Alerts
      BY <1>24 DEF HoldFails, TypeInv, JobOK
    <3>2. /\ notified' = [notified EXCEPT ![job.id] = @ + 1] /\ cancelled' = cancelled
          /\ notified \in [Alerts -> Nat] /\ cancelled \subseteq Alerts
      BY <1>24 DEF HoldFails, TypeInv, ToldOK
    <3> QED
      BY ONLY <3>1, <3>2 DEF ToldOK
  <2> QED
    BY <1>0, <1>24, <2>1, <2>2 DEF TypeInv, HoldFails
<1>25. ASSUME NEW d \in Deciders, ClaimFails(d) \/ CrashDecider(d) PROVE TypeInv'
  <2>1. ClaimsOK' /\ WeatherOK'
    BY <1>25, ClaimIdle, TroubleType DEF ClaimFails, CrashDecider
  <2> QED
    BY <1>0, <1>25, <2>1 DEF TypeInv, ClaimFails, CrashDecider
<1>26. ASSUME CrashAlarmConsumer PROVE TypeInv'
  <2>1. JobOK' /\ WeatherOK'
    BY <1>26, <1>a, JobFinds, TroubleType DEF CrashAlarmConsumer, JobType
  <2> QED
    BY <1>0, <1>26, <2>1 DEF TypeInv, CrashAlarmConsumer
<1>27. CASE UNCHANGED vars
  BY <1>0, <1>27 DEF TypeInv, vars
<1> QED
  BY <1>1, <1>2, <1>3, <1>4, <1>5, <1>6, <1>7, <1>8, <1>9, <1>10, <1>11, <1>13, <1>14, <1>15,
     <1>16, <1>17, <1>18, <1>19, <1>20, <1>21, <1>22, <1>23, <1>24, <1>25, <1>26, <1>27
  DEF Next, Raise, Decide

\* Every reachable state is well-typed.
THEOREM TypeCorrect == Spec => []TypeOK
<1>1. TypeInv => TypeOK
  BY DEF TypeInv, TypeOK, ClockOK, RowsOK, KeysOK, JobOK, ClaimsOK, DeskOK, ToldOK, WeatherOK
<1> QED
  BY <1>1, TypeInit, TypeStep, PTL DEF Spec

-----------------------------------------------------------------------------
(* Rows only move on *)

Exists(a) == alert[a].status # "NONE"
Lasts(a) == alert'[a].status # "NONE"

\* What a reader of the row a may rely on.
Grows(a) ==
    Exists(a) =>
      /\ Lasts(a) /\ alert'[a].seen = alert[a].seen
      /\ alert'[a].version = alert[a].version => alert'[a] = alert[a]
      /\ alert'[a].version >= alert[a].version

\* What an UPDATE and an INSERT do to the rows.
Updated(a, to) ==
    /\ \A b \in Alerts \ {a} : alert'[b] = alert[b]
    /\ alert'[a].seen = alert[a].seen /\ alert'[a].status = to
    /\ alert'[a].version = alert[a].version + 1

Created(a, seen) ==
    /\ \A b \in Alerts \ {a} : alert'[b] = alert[b]
    /\ alert'[a] = [status |-> "OPEN", version |-> 1, seen |-> seen]

LEMMA DetailRow ==
  ASSUME TypeInv, NEW a \in Alerts, NEW version, updateDetail(a, version)
  PROVE  UNCHANGED alert \/ Updated(a, alert[a].status)
<1>1. alert \in [Alerts -> RowType]
  BY DEF TypeInv, RowsOK
<1> QED
  BY <1>1 DEF updateDetail, Updated, RowType

LEMMA StatusRow ==
  ASSUME TypeInv, NEW a \in Alerts, NEW version, NEW to, NEW actor,
         updateStatus(a, version, to, actor)
  PROVE  /\ \/ UNCHANGED alert /\ alert[a].version # version
            \/ Updated(a, to) /\ alert[a].version = version
         /\ audit' = [audit EXCEPT ![a] = [status |-> to, actor |-> actor]]
<1>1. alert \in [Alerts -> RowType]
  BY DEF TypeInv, RowsOK
<1> DEFINE bumped == [alert[a] EXCEPT !.version = @ + 1]
           row == [bumped EXCEPT !.status = to]
<1>2. alert' = IF alert[a].version = version THEN [alert EXCEPT ![a] = row] ELSE alert
  BY <1>1 DEF updateStatus
<1>3. row.status = to /\ row.seen = alert[a].seen /\ row.version = alert[a].version + 1
  BY <1>1 DEF RowType
<1> HIDE DEF row
<1>4. ASSUME alert[a].version = version PROVE Updated(a, to)
  BY ONLY <1>1, <1>2, <1>3, <1>4, a \in Alerts DEF Updated
<1> QED
  BY <1>2, <1>4 DEF updateStatus

LEMMA CreateRow ==
  ASSUME TypeInv, NEW a \in Alerts, NEW seen, create(a, seen)
  PROVE  Created(a, seen)
  BY DEF create, Created, TypeInv, RowsOK

LEMMA UpdatedGrows ==
  ASSUME TypeInv, NEW a \in Alerts, NEW to, to # "NONE", Updated(a, to), NEW b \in Alerts
  PROVE  Grows(b)
<1>1. alert[b].version \in Nat /\ alert[a].version \in Nat
  BY DEF TypeInv, RowsOK, RowType
<1>2. alert[a].version + 1 # alert[a].version /\ alert[a].version + 1 >= alert[a].version
      /\ alert[b].version >= alert[b].version
  BY ONLY <1>1
<1> QED
  BY <1>2 DEF Updated, Grows, Exists, Lasts

LEMMA CreatedGrows ==
  ASSUME TypeInv, NEW a \in Alerts, NEW seen, Created(a, seen), ~Exists(a), NEW b \in Alerts
  PROVE  Grows(b)
<1>1. alert[b].version \in Nat
  BY DEF TypeInv, RowsOK, RowType
<1>2. alert[b].version >= alert[b].version
  BY ONLY <1>1
<1> QED
  BY <1>2 DEF Created, Grows, Exists, Lasts

LEMMA KeptGrows ==
  ASSUME TypeInv, UNCHANGED alert, NEW b \in Alerts
  PROVE  Grows(b)
<1>1. alert[b].version \in Nat
  BY DEF TypeInv, RowsOK, RowType
<1>2. alert[b].version >= alert[b].version
  BY ONLY <1>1
<1> QED
  BY <1>2 DEF Grows, Exists, Lasts

\* Who acts.
Consumes == \/ ReceiveAlarm \/ Raise
            \/ CreateFails \/ ClaimDedupFails \/ HoldFails \/ CrashAlarmConsumer
Decides == \/ ReadHold \/ \E s \in Sweepers : SweepDue(s)
           \/ \E d \in Deciders : Decide(d) \/ ClaimFails(d) \/ CrashDecider(d)
Operates == \/ \E a \in Alerts, to \in {"ACKNOWLEDGED", "RESOLVED"} : Request(a, to)
            \/ Respond
Passes == ExpireDedup \/ PassDeadline \/ NextAge

LEMMA Actors ==
  ASSUME [Next]_vars PROVE Consumes \/ Decides \/ Operates \/ Passes \/ UNCHANGED vars
  BY Zenon DEF Next, Consumes, Decides, Operates, Passes

LEMMA ConsumesAlone == Consumes => UNCHANGED <<age, claim, desk, cancelled, faults>>
  BY DEF Consumes, Raise, ReceiveAlarm, FindOpen, Supersede, Bump, ClaimDedup, Create,
         ClearDedup, HoldAccident, SetDeadline, CreateFails, ClaimDedupFails, HoldFails,
         CrashAlarmConsumer, clock, told, weather, Trouble

LEMMA DecidesAlone == Decides => UNCHANGED <<age, audit, dedup, job, desk, faults>>
  BY DEF Decides, Decide, ReadHold, SweepDue, GetHold, DelHold, ZremHold, FindHeld, Confirm,
         Notify, ClaimFails, CrashDecider, clock, rows, keys, weather, Trouble

LEMMA OperatesAlone == Operates => UNCHANGED <<age, keys, job, claim, told, faults>>
  BY DEF Operates, Request, Respond, clock, weather, Trouble

LEMMA PassesAlone == Passes => UNCHANGED <<rows, hold, job, claim, desk, told, faults>>
  BY DEF Passes, ExpireDedup, PassDeadline, NextAge, weather

-----------------------------------------------------------------------------
(* Every row that is named has been inserted *)

JobRefers ==
    /\ job.pc \in {"bump", "supersede"} => Exists(job.open)
    /\ job.pc \in {"hold", "due"} => Exists(job.id)

HoldRefers == hold # None => Exists(hold)

ClaimRefers(c) == (c.alert # None => Exists(c.alert)) /\ (c.raw # None => Exists(c.raw))
ClaimsRefer == \A d \in Deciders : ClaimRefers(claim[d])

\* An operator's request was legal, and is still if the row is as it was.
DeskRefers ==
    desk.pc = "update" =>
      /\ Exists(desk.alert)
      /\ desk.version <= alert[desk.alert].version
      /\ desk.version = alert[desk.alert].version => Legal(alert[desk.alert].status, desk.to)

ToldRefers == \A a \in Alerts : ~Exists(a) => notified[a] = 0 /\ a \notin cancelled

References == JobRefers /\ HoldRefers /\ ClaimsRefer /\ DeskRefers /\ ToldRefers

\* The rows stay as they are, or one of them is updated or inserted.
RowsMove ==
    \/ UNCHANGED alert
    \/ \E a \in Alerts : /\ Exists(a) /\ Updated(a, alert[a].status)
                         /\ \/ Bump
                            \/ \E d \in Deciders : Confirm(d) /\ a = claim[d].alert
    \/ Supersede /\ job.open \in Alerts /\ Updated(job.open, "RESOLVED")
    \/ /\ Respond /\ desk.alert \in Alerts /\ desk.to \in {"ACKNOWLEDGED", "RESOLVED"}
       /\ Updated(desk.alert, desk.to) /\ alert[desk.alert].version = desk.version
    \/ Create /\ \E a \in Fresh : Created(a, job.seen)

LEMMA EveryRowsMove == ASSUME TypeInv, References, [Next]_vars PROVE RowsMove
<1>1. CASE Supersede
  <2>1. job.open \in Alerts
    BY <1>1 DEF Supersede, TypeInv, JobOK
  <2> QED
    BY <1>1, <2>1, StatusRow DEF Supersede, RowsMove
<1>2. CASE Bump
  <2>1. job.open \in Alerts /\ Exists(job.open)
    BY <1>2 DEF Bump, TypeInv, JobOK, References, JobRefers
  <2>2. UNCHANGED alert \/ Updated(job.open, alert[job.open].status)
    BY <1>2, <2>1, DetailRow DEF Bump
  <2> QED
    BY ONLY <1>2, <2>1, <2>2 DEF RowsMove
<1>3. CASE Create
  <2>1. PICK a \in Fresh : create(a, job.seen)
    BY <1>3 DEF Create
  <2>2. a \in Alerts
    BY DEF Fresh
  <2>3. Created(a, job.seen)
    BY <2>1, <2>2, CreateRow
  <2> QED
    BY ONLY <1>3, <2>1, <2>3 DEF RowsMove
<1>4. ASSUME NEW d \in Deciders, Confirm(d) PROVE RowsMove
  <2>1. claim[d].alert \in Alerts
    BY <1>4 DEF Confirm, At, TypeInv, ClaimsOK, ClaimBound
  <2>2. Exists(claim[d].alert)
    BY <2>1, NamesAssumption DEF References, ClaimsRefer, ClaimRefers
  <2>3. UNCHANGED alert \/ Updated(claim[d].alert, alert[claim[d].alert].status)
    BY <1>4, <2>1, DetailRow DEF Confirm
  <2> QED
    BY ONLY <1>4, <2>1, <2>2, <2>3, d \in Deciders DEF RowsMove
<1>5. CASE Respond
  <2>1. desk.alert \in Alerts /\ desk.to \in {"ACKNOWLEDGED", "RESOLVED"}
    BY <1>5 DEF Respond, TypeInv, DeskOK
  <2> QED
    BY <1>5, <2>1, StatusRow DEF Respond, RowsMove
<1>6. ASSUME UNCHANGED alert PROVE RowsMove
  BY <1>6 DEF RowsMove
<1>7. CASE Consumes /\ ~(Supersede \/ Bump \/ Create)
  BY <1>6, <1>7 DEF Consumes, Raise, ReceiveAlarm, FindOpen, ClaimDedup, ClearDedup,
     HoldAccident, SetDeadline, CreateFails, ClaimDedupFails, HoldFails, CrashAlarmConsumer, rows
<1>8. CASE Decides /\ \A d \in Deciders : ~Confirm(d)
  BY <1>6, <1>8 DEF Decides, Decide, ReadHold, SweepDue, GetHold, DelHold, ZremHold, FindHeld,
     Notify, ClaimFails, CrashDecider, rows
<1>9. CASE Operates /\ ~Respond
  BY <1>6, <1>9 DEF Operates, Request, rows
<1>10. CASE Passes \/ UNCHANGED vars
  BY <1>6, <1>10, PassesAlone DEF vars, rows
<1> QED
  BY <1>1, <1>2, <1>3, <1>4, <1>5, <1>7, <1>8, <1>9, <1>10, Actors

LEMMA RowsGrow ==
  ASSUME TypeInv, References, [Next]_vars
  PROVE  \A b \in Alerts : Grows(b)
<1> SUFFICES ASSUME NEW b \in Alerts PROVE Grows(b)
  OBVIOUS
<1>1. ASSUME NEW a \in Alerts, Exists(a), Updated(a, alert[a].status) PROVE Grows(b)
  BY <1>1, UpdatedGrows DEF Exists
<1>2. ASSUME NEW a \in Alerts, NEW to \in {"ACKNOWLEDGED", "RESOLVED"}, Updated(a, to)
      PROVE  Grows(b)
  BY <1>2, UpdatedGrows
<1>3. ASSUME NEW a \in Fresh, Created(a, job.seen) PROVE Grows(b)
  BY <1>3, CreatedGrows DEF Fresh, Exists
<1>4. RowsMove
  BY EveryRowsMove
<1> QED
  BY <1>1, <1>2, <1>3, <1>4, KeptGrows DEF RowsMove

LEMMA RefersInit == Init => References
<1> SUFFICES ASSUME Init PROVE References
  OBVIOUS
<1>1. JobRefers /\ HoldRefers /\ DeskRefers
  BY DEF Init, JobRefers, HoldRefers, DeskRefers, NoJob, NoRequest
<1>2. ClaimsRefer
  BY DEF Init, ClaimsRefer, ClaimRefers, NoClaim
<1>3. ToldRefers
  BY DEF Init, ToldRefers
<1> QED
  BY <1>1, <1>2, <1>3 DEF References

\* What is named stays inserted.
LEMMA StillExists ==
  ASSUME TypeInv, References, [Next]_vars, NEW a, a \in Alerts, Exists(a)
  PROVE  Lasts(a)
  BY RowsGrow DEF Grows, Exists, Lasts

LEMMA JobRefersStep == TypeInv /\ References /\ [Next]_vars => JobRefers'
<1> SUFFICES ASSUME TypeInv, References, [Next]_vars PROVE JobRefers'
  OBVIOUS
<1>0. /\ job.pc \in {"bump", "supersede"} => job.open \in Alerts /\ Lasts(job.open)
      /\ job.pc \in {"hold", "due"} => job.id \in Alerts /\ Lasts(job.id)
      /\ job \in JobType
  BY StillExists DEF TypeInv, JobOK, References, JobRefers
<1>1. ASSUME UNCHANGED job PROVE JobRefers'
  BY <1>0, <1>1 DEF JobRefers, Exists, Lasts
<1>2. ASSUME job'.pc \notin {"bump", "supersede", "hold", "due"} PROVE JobRefers'
  BY <1>2 DEF JobRefers
<1>3. CASE Consumes
  <2>1. CASE FindOpen
    <3>1. ASSUME NEW a \in Opened,
                 job' = [job EXCEPT !.open = a, !.version = alert[a].version,
                           !.pc = IF alert[a].seen = job.seen THEN "bump" ELSE "supersede"]
          PROVE  JobRefers'
      <4>1. job'.open = a /\ job'.pc \in {"bump", "supersede"}
        BY <1>0, <3>1 DEF JobType
      <4>2. Lasts(a)
        BY StillExists DEF Opened, Exists, Lasts
      <4> QED
        BY ONLY <4>1, <4>2 DEF JobRefers, Exists, Lasts
    <3>2. ASSUME Goto("claim") PROVE JobRefers'
      BY <1>0, <1>2, <3>2 DEF Goto, JobType
    <3> QED
      BY <2>1, <3>1, <3>2 DEF FindOpen
  <2>2. CASE Create
    <3>1. PICK a \in Fresh :
            /\ create(a, job.seen)
            /\ job' = IF job.seen = age THEN [job EXCEPT !.pc = "hold", !.id = a] ELSE NoJob
      BY <2>2 DEF Create
    <3>2. Lasts(a)
      <4>1. a \in Alerts
        BY DEF Fresh
      <4>2. Created(a, job.seen)
        BY <3>1, <4>1, CreateRow
      <4> QED
        BY ONLY <4>2 DEF Created, Lasts
    <3>3. CASE job.seen = age
      <4>1. job'.pc = "hold" /\ job'.id = a
        BY <1>0, <3>1, <3>3 DEF JobType
      <4> QED
        BY ONLY <3>2, <4>1 DEF JobRefers, Exists, Lasts
    <3>4. CASE job.seen # age
      BY <1>2, <3>1, <3>4 DEF NoJob
    <3> QED
      BY <3>3, <3>4
  <2>3. CASE HoldAccident
    <3>1. job.pc = "hold" /\ job'.pc = "due" /\ job'.id = job.id
      BY <1>0, <2>3 DEF HoldAccident, Goto, JobType
    <3> QED
      BY ONLY <1>0, <3>1 DEF JobRefers, Exists, Lasts
  <2>4. CASE ~(FindOpen \/ Create \/ HoldAccident)
    <3>0. ASSUME NEW seen, job' = [NoJob EXCEPT !.pc = "find", !.seen = seen]
          PROVE  job'.pc = "find"
      BY ONLY <3>0 DEF NoJob
    <3>1. ASSUME NEW pc \in {"claim", "create", "release"}, Goto(pc) PROVE job'.pc = pc
      BY <1>0, <3>1 DEF Goto, JobType
    <3>2. NoJob.pc = "idle"
      BY DEF NoJob
    <3>3. CASE ReceiveAlarm \/ CrashAlarmConsumer
      BY <3>0, <3>3, <1>2 DEF ReceiveAlarm, CrashAlarmConsumer
    <3>4. CASE Supersede \/ ClaimDedup \/ CreateFails \/ ClaimDedupFails
      BY <3>1, <3>2, <3>4, <1>2 DEF Supersede, ClaimDedup, CreateFails, ClaimDedupFails
    <3>5. CASE Bump \/ ClearDedup \/ SetDeadline \/ HoldFails
      BY <3>2, <3>5, <1>2 DEF Bump, ClearDedup, SetDeadline, HoldFails
    <3> QED
      BY <1>3, <2>4, <3>3, <3>4, <3>5 DEF Consumes, Raise
  <2> QED
    BY <2>1, <2>2, <2>3, <2>4
<1>4. CASE Decides \/ Operates \/ Passes
  BY <1>1, <1>4, DecidesAlone, OperatesAlone, PassesAlone
<1>5. CASE UNCHANGED vars
  BY <1>1, <1>5 DEF vars
<1> QED
  BY <1>3, <1>4, <1>5, Actors

\* The key is set by the consumer, and deleted.
LEMMA HoldMoves ==
  ASSUME [Next]_vars
  PROVE  hold' \in {hold, None} \/ (HoldAccident /\ hold' = job.id)
<1>1. CASE HoldAccident
  BY <1>1 DEF HoldAccident
<1>2. CASE ~HoldAccident
  <2>1. Consumes => UNCHANGED hold
    BY <1>2 DEF Consumes, Raise, ReceiveAlarm, FindOpen, Supersede, Bump, ClaimDedup, Create,
       ClearDedup, SetDeadline, CreateFails, ClaimDedupFails, HoldFails, CrashAlarmConsumer, keys
  <2>2. Decides => hold' \in {hold, None}
    BY DEF Decides, Decide, ReadHold, SweepDue, GetHold, DelHold, ZremHold, FindHeld, Confirm,
       Notify, ClaimFails, CrashDecider, keys
  <2>3. Operates \/ Passes \/ UNCHANGED vars => UNCHANGED hold
    BY OperatesAlone, PassesAlone DEF vars, keys
  <2> QED
    BY <2>1, <2>2, <2>3, Actors
<1> QED
  BY <1>1, <1>2

LEMMA HoldRefersStep == TypeInv /\ References /\ [Next]_vars => HoldRefers'
<1> SUFFICES ASSUME TypeInv, References, [Next]_vars PROVE HoldRefers'
  OBVIOUS
<1>0. hold # None => hold \in Alerts /\ Lasts(hold)
  BY StillExists DEF TypeInv, KeysOK, References, HoldRefers
<1>1. CASE HoldAccident /\ hold' = job.id
  <2>1. Lasts(job.id)
    BY <1>1, StillExists DEF HoldAccident, TypeInv, JobOK, References, JobRefers
  <2> QED
    BY <1>1, <2>1 DEF HoldRefers, Exists, Lasts
<1>2. CASE hold' \in {hold, None}
  BY <1>0, <1>2 DEF HoldRefers, Exists, Lasts
<1> QED
  BY <1>1, <1>2, HoldMoves

\* A decider's step gives it the alarm that is held, or what it has read already.
ClaimMoves(d) ==
    /\ claim' = [claim EXCEPT ![d] = claim'[d]]
    /\ claim'[d].alert \in {None, hold, claim[d].alert, claim[d].raw}
    /\ claim'[d].raw \in {None, hold, claim[d].raw}

LEMMA DecidersMove ==
  ASSUME TypeInv, Decides PROVE \E d \in Deciders : ClaimMoves(d)
<1>0. claim \in [Deciders -> ClaimType] /\ \A d \in Deciders : claim[d] \in ClaimType
  BY DEF TypeInv, ClaimsOK
<1>1. ASSUME ReadHold PROVE ClaimMoves(Positions)
  <2>1. Positions \in Deciders
    BY DEF Deciders
  <2>2. PICK verdict : claim' = [claim EXCEPT ![Positions] =
                     [NoClaim EXCEPT !.pc = "get", !.alert = hold, !.verdict = verdict]]
    BY <1>1 DEF ReadHold
  <2> QED
    BY <1>0, <2>1, <2>2 DEF ClaimMoves, NoClaim
<1>2. ASSUME NEW s \in Sweepers, SweepDue(s) PROVE ClaimMoves(s)
  <2>1. s \in Deciders
    BY DEF Deciders
  <2> QED
    BY <1>0, <1>2, <2>1 DEF SweepDue, ClaimMoves, NoClaim
<1>3. ASSUME NEW d \in Deciders, claim' = [claim EXCEPT ![d] = NoClaim] PROVE ClaimMoves(d)
  BY <1>0, <1>3 DEF ClaimMoves, NoClaim
<1>4. ASSUME NEW d \in Deciders, GetHold(d) PROVE ClaimMoves(d)
  BY <1>0, <1>4 DEF GetHold, ClaimMoves, ClaimType
<1>5. ASSUME NEW d \in Deciders, DelHold(d) PROVE ClaimMoves(d)
  BY <1>0, <1>5 DEF DelHold, ClaimMoves, ClaimType
<1>6. ASSUME NEW d \in Deciders, ZremHold(d) PROVE ClaimMoves(d)
  <2>1. CASE claim[d].raw = None
    BY <1>3, <1>6, <2>1 DEF ZremHold
  <2>2. CASE claim[d].raw # None
    BY <1>0, <1>6, <2>2 DEF ZremHold, Finishes, ClaimMoves, ClaimType
  <2> QED
    BY <2>1, <2>2
<1>7. ASSUME NEW d \in Deciders, FindHeld(d) PROVE ClaimMoves(d)
  BY <1>0, <1>7 DEF FindHeld, ClaimMoves, ClaimType
<1>8. ASSUME NEW d \in Deciders, To(d, "notify") PROVE ClaimMoves(d)
  BY <1>0, <1>8 DEF To, ClaimMoves, ClaimType
<1>9. ASSUME NEW d \in Deciders, Confirm(d) PROVE ClaimMoves(d)
  BY <1>3, <1>8, <1>9 DEF Confirm
<1>10. ASSUME NEW d \in Deciders, Notify(d) \/ ClaimFails(d) \/ CrashDecider(d)
       PROVE  ClaimMoves(d)
  BY <1>3, <1>10 DEF Notify, ClaimFails, CrashDecider
<1>11. Positions \in Deciders /\ Sweepers \subseteq Deciders
  BY DEF Deciders
<1> QED
  BY <1>1, <1>2, <1>4, <1>5, <1>6, <1>7, <1>9, <1>10, <1>11 DEF Decides, Decide

LEMMA ClaimsReferStep == TypeInv /\ References /\ [Next]_vars => ClaimsRefer'
<1> SUFFICES ASSUME TypeInv, References, [Next]_vars PROVE ClaimsRefer'
  OBVIOUS
<1>0. \A d \in Deciders : /\ claim[d].alert # None => Lasts(claim[d].alert)
                          /\ claim[d].raw # None => Lasts(claim[d].raw)
  <2> SUFFICES ASSUME NEW d \in Deciders
               PROVE  /\ claim[d].alert # None => Lasts(claim[d].alert)
                      /\ claim[d].raw # None => Lasts(claim[d].raw)
    OBVIOUS
  <2>1. claim[d].alert \in Alerts \cup {None} /\ claim[d].raw \in Alerts \cup {None}
    BY DEF TypeInv, ClaimsOK, ClaimType
  <2>2. ClaimRefers(claim[d])
    BY DEF References, ClaimsRefer
  <2> QED
    BY <2>1, <2>2, StillExists DEF ClaimRefers
<1>1. hold # None => Lasts(hold)
  BY StillExists DEF TypeInv, KeysOK, References, HoldRefers
<1>2. ASSUME UNCHANGED claim PROVE ClaimsRefer'
  BY <1>0, <1>2 DEF ClaimsRefer, ClaimRefers, Exists, Lasts
<1>3. CASE Decides
  <2>1. PICK d \in Deciders : ClaimMoves(d)
    BY <1>3, DecidersMove
  <2>2. claim \in [Deciders -> ClaimType]
    BY DEF TypeInv, ClaimsOK
  <2>3. ASSUME NEW e \in Deciders PROVE ClaimRefers(claim[e])'
    <3>1. CASE e = d
      BY <1>0, <1>1, <2>1, <3>1 DEF ClaimMoves, ClaimRefers, Exists, Lasts
    <3>2. CASE e # d
      <4>1. claim'[e] = claim[e]
        BY <2>1, <2>2, <3>2 DEF ClaimMoves
      <4> QED
        BY <1>0, <4>1 DEF ClaimRefers, Exists, Lasts
    <3> QED
      BY <3>1, <3>2
  <2> QED
    BY <2>3 DEF ClaimsRefer
<1>4. CASE Consumes \/ Operates \/ Passes
  BY <1>2, <1>4, ConsumesAlone, OperatesAlone, PassesAlone
<1>5. CASE UNCHANGED vars
  BY <1>2, <1>5 DEF vars
<1> QED
  BY <1>3, <1>4, <1>5, Actors

LEMMA DeskRefersStep == TypeInv /\ References /\ [Next]_vars => DeskRefers'
<1> SUFFICES ASSUME TypeInv, References, [Next]_vars PROVE DeskRefers'
  OBVIOUS
<1>1. ASSUME UNCHANGED desk PROVE DeskRefers'
  <2> SUFFICES ASSUME desk.pc = "update"
               PROVE  /\ Lasts(desk.alert)
                      /\ desk.version <= alert'[desk.alert].version
                      /\ desk.version = alert'[desk.alert].version =>
                           Legal(alert'[desk.alert].status, desk.to)
    BY <1>1 DEF DeskRefers, Exists, Lasts
  <2>1. desk.alert \in Alerts /\ desk.version \in Nat
    BY DEF TypeInv, DeskOK, DeskType
  <2>2. /\ Exists(desk.alert) /\ desk.version <= alert[desk.alert].version
        /\ desk.version = alert[desk.alert].version => Legal(alert[desk.alert].status, desk.to)
    BY DEF References, DeskRefers
  <2>3. Grows(desk.alert)
    BY <2>1, RowsGrow
  <2>4. alert[desk.alert].version \in Nat /\ alert'[desk.alert].version \in Nat
    BY <2>1, TypeStep DEF TypeInv, RowsOK, RowType
  <2>5. alert'[desk.alert].version = desk.version => alert'[desk.alert] = alert[desk.alert]
    BY ONLY <2>1, <2>2, <2>3, <2>4 DEF Grows
  <2>6. desk.version <= alert'[desk.alert].version
    BY ONLY <2>1, <2>2, <2>3, <2>4 DEF Grows
  <2> QED
    BY <2>2, <2>3, <2>5, <2>6 DEF Grows, Exists, Lasts
<1>2. CASE Operates
  <2>1. ASSUME NEW a \in Alerts, NEW to \in {"ACKNOWLEDGED", "RESOLVED"}, Request(a, to)
        PROVE  DeskRefers'
    <3>1. alert[a].version \in Nat
      BY DEF TypeInv, RowsOK, RowType
    <3>2. /\ desk' = [pc |-> "update", alert |-> a, to |-> to, version |-> alert[a].version]
          /\ UNCHANGED alert /\ Legal(alert[a].status, to)
      BY <2>1 DEF Request, rows
    <3>3. Exists(a)
      BY <3>2 DEF Legal, Exists, Lasts
    <3>4. alert[a].version <= alert[a].version
      BY ONLY <3>1
    <3> QED
      BY ONLY <3>2, <3>3, <3>4 DEF DeskRefers, Exists, Lasts
  <2>2. CASE Respond
    BY <2>2 DEF Respond, NoRequest, DeskRefers
  <2> QED
    BY <1>2, <2>1, <2>2 DEF Operates
<1>3. CASE Consumes \/ Decides \/ Passes
  BY <1>1, <1>3, ConsumesAlone, DecidesAlone, PassesAlone
<1>4. CASE UNCHANGED vars
  BY <1>1, <1>4 DEF vars
<1> QED
  BY <1>2, <1>3, <1>4, Actors

LEMMA ToldRefersStep == TypeInv /\ References /\ [Next]_vars => ToldRefers'
<1> SUFFICES ASSUME TypeInv, References, [Next]_vars, NEW a \in Alerts, ~Exists(a)'
             PROVE  notified'[a] = 0 /\ a \notin cancelled'
  BY DEF ToldRefers, Exists, Lasts
<1>0. ~Exists(a) /\ notified[a] = 0 /\ a \notin cancelled /\ notified \in [Alerts -> Nat]
  BY StillExists DEF References, ToldRefers, TypeInv, ToldOK, Exists, Lasts
<1>1. ASSUME UNCHANGED told PROVE notified'[a] = 0 /\ a \notin cancelled'
  BY <1>0, <1>1 DEF told
<1>2. CASE Consumes
  <2>1. CASE HoldFails
    <3>1. job.id # a
      BY <1>0, <2>1 DEF HoldFails, References, JobRefers
    <3>2. notified' = [notified EXCEPT ![job.id] = @ + 1] /\ cancelled' = cancelled
      BY <2>1 DEF HoldFails
    <3> QED
      BY ONLY <1>0, <3>1, <3>2, a \in Alerts
  <2>2. CASE ~HoldFails
    <3>1. UNCHANGED told
      BY <1>2, <2>2 DEF Consumes, Raise, ReceiveAlarm, FindOpen, Supersede, Bump, ClaimDedup,
         Create, ClearDedup, HoldAccident, SetDeadline, CreateFails, ClaimDedupFails,
         CrashAlarmConsumer
    <3> QED
      BY <1>1, <3>1
  <2> QED
    BY <2>1, <2>2
<1>3. CASE Decides
  <2>1. ASSUME NEW d \in Deciders, Confirm(d) \/ Notify(d)
        PROVE  notified'[a] = 0 /\ a \notin cancelled'
    <3>1. claim[d].alert \in Alerts
      BY <2>1 DEF Confirm, Notify, At, TypeInv, ClaimsOK, ClaimBound
    <3>2. claim[d].alert # a
      BY <1>0, <3>1, NamesAssumption DEF References, ClaimsRefer, ClaimRefers
    <3>3. /\ notified' \in {notified, [notified EXCEPT ![claim[d].alert] = @ + 1]}
          /\ cancelled' \in {cancelled, cancelled \cup {claim[d].alert}}
      BY <2>1 DEF Confirm, Notify
    <3> QED
      BY ONLY <1>0, <3>2, <3>3, a \in Alerts
  <2>2. CASE \A d \in Deciders : ~(Confirm(d) \/ Notify(d))
    <3>1. UNCHANGED told
      BY <1>3, <2>2 DEF Decides, Decide, ReadHold, SweepDue, GetHold, DelHold, ZremHold,
         FindHeld, ClaimFails, CrashDecider
    <3> QED
      BY <1>1, <3>1
  <2> QED
    BY <2>1, <2>2
<1>4. CASE Operates \/ Passes
  BY <1>1, <1>4, OperatesAlone, PassesAlone
<1>5. CASE UNCHANGED vars
  BY <1>1, <1>5 DEF vars
<1> QED
  BY <1>2, <1>3, <1>4, <1>5, Actors

LEMMA RefersStep == TypeInv /\ References /\ [Next]_vars => References'
  BY JobRefersStep, HoldRefersStep, ClaimsReferStep, DeskRefersStep, ToldRefersStep
  DEF References

-----------------------------------------------------------------------------
(* Ages *)

\* What is known of the ages of detections: none is of the future, and only a
\* device's buffer brings old ones.
Ages ==
    /\ job.seen <= age
    /\ \A a \in Alerts : alert[a].seen <= age
    /\ "replay" \notin faults /\ job # NoJob => job.seen = age

\* A message under way keeps the age of its detection.
LEMMA JobKeepsAge ==
  ASSUME TypeInv, Consumes, ~ReceiveAlarm
  PROVE  job # NoJob /\ (job' = NoJob \/ job'.seen = job.seen)
<1>0. job \in JobType
  BY DEF TypeInv, JobOK
<1>1. job # NoJob
  <2>1. FindOpen => job.pc = "find"
    BY Zenon DEF FindOpen
  <2>2. Create => job.pc = "create"
    BY Zenon DEF Create
  <2>3. /\ Supersede => job.pc = "supersede"
        /\ Bump => job.pc = "bump"
        /\ ClaimDedup \/ ClaimDedupFails => job.pc = "claim"
        /\ CreateFails => job.pc = "create"
        /\ ClearDedup => job.pc = "release"
        /\ HoldAccident \/ SetDeadline \/ HoldFails => job.pc \in {"hold", "due"}
    BY DEF Supersede, Bump, ClaimDedup, ClaimDedupFails, CreateFails, ClearDedup, HoldAccident,
       SetDeadline, HoldFails
  <2>4. CrashAlarmConsumer => job # NoJob
    BY Zenon DEF CrashAlarmConsumer
  <2>5. NoJob.pc = "idle"
    BY DEF NoJob
  <2> QED
    BY <2>1, <2>2, <2>3, <2>4, <2>5 DEF Consumes, Raise
<1>2. ASSUME NEW pc, Goto(pc) PROVE job'.seen = job.seen
  BY <1>0, <1>2 DEF Goto, JobType
<1>3. CASE FindOpen
  <2>1. ASSUME NEW a, NEW pc,
               job' = [job EXCEPT !.open = a, !.version = alert[a].version, !.pc = pc]
        PROVE  job'.seen = job.seen
    BY <1>0, <2>1 DEF JobType
  <2> QED
    BY <1>1, <1>2, <1>3, <2>1 DEF FindOpen
<1>4. CASE Create
  <2>1. ASSUME NEW a, job' = [job EXCEPT !.pc = "hold", !.id = a] PROVE job'.seen = job.seen
    BY <1>0, <2>1 DEF JobType
  <2> QED
    BY <1>1, <1>4, <2>1 DEF Create
<1>5. CASE Supersede \/ ClaimDedup \/ HoldAccident \/ CreateFails \/ ClaimDedupFails
  BY <1>1, <1>2, <1>5 DEF Supersede, ClaimDedup, HoldAccident, CreateFails, ClaimDedupFails
<1>6. CASE Bump \/ ClearDedup \/ SetDeadline \/ HoldFails
  BY <1>1, <1>6 DEF Bump, ClearDedup, SetDeadline, HoldFails
<1>7. CASE CrashAlarmConsumer
  BY <1>1, <1>7 DEF CrashAlarmConsumer, NoJob
<1> QED
  BY <1>3, <1>4, <1>5, <1>6, <1>7 DEF Consumes, Raise

LEMMA AgesInit == Init => Ages
  BY DEF Init, Ages, NoJob, NoRow

LEMMA AgesStep == TypeInv /\ References /\ Ages /\ [Next]_vars => Ages'
<1> SUFFICES ASSUME TypeInv, References, Ages, [Next]_vars PROVE Ages'
  OBVIOUS
<1>0. /\ age \in Nat /\ job \in JobType /\ job.seen \in Nat
      /\ \A a \in Alerts : alert[a].seen \in Nat /\ alert[a].seen <= age
  BY DEF TypeInv, ClockOK, JobOK, JobType, RowsOK, RowType, Ages
<1>1. age' \in {age, age + 1} /\ faults' = faults
  BY ConsumesAlone, DecidesAlone, OperatesAlone, PassesAlone, Actors
  DEF Passes, ExpireDedup, PassDeadline, NextAge, vars, clock, weather
<1>2. ASSUME NEW a \in Alerts PROVE alert'[a].seen <= age'
  <2>1. alert'[a].seen \in {alert[a].seen, job.seen}
    <3>1. RowsMove
      BY EveryRowsMove
    <3>2. ASSUME NEW b, Created(b, job.seen) PROVE alert'[a].seen \in {alert[a].seen, job.seen}
      BY <3>2 DEF Created
    <3>3. ASSUME NEW b, NEW to, Updated(b, to) PROVE alert'[a].seen \in {alert[a].seen, job.seen}
      BY <3>3 DEF Updated
    <3> QED
      BY <3>1, <3>2, <3>3 DEF RowsMove
  <2> QED
    BY <1>0, <1>1, <2>1 DEF Ages
<1>3. job'.seen <= age' /\ ("replay" \notin faults' /\ job' # NoJob => job'.seen = age')
  <2>1. CASE ReceiveAlarm
    <3>1. PICK seen \in {age, 0} :
            /\ job' = [NoJob EXCEPT !.pc = "find", !.seen = seen]
            /\ "replay" \notin faults => seen = age
      BY <2>1 DEF ReceiveAlarm
    <3>2. job'.seen = seen /\ age' = age
      BY <2>1, <3>1 DEF NoJob, ReceiveAlarm
    <3> QED
      BY ONLY <1>0, <1>1, <3>1, <3>2
  <2>2. CASE Consumes /\ ~ReceiveAlarm
    <3>1. age' = age /\ job # NoJob /\ (job' = NoJob \/ job'.seen = job.seen)
      BY <2>2, JobKeepsAge, ConsumesAlone
    <3>2. NoJob.seen = 0
      BY DEF NoJob
    <3> QED
      BY <1>0, <1>1, <3>1, <3>2 DEF Ages
  <2>3. CASE NextAge
    <3>1. job' = job /\ job = NoJob /\ age' = age + 1
      BY <2>3 DEF NextAge
    <3>2. NoJob.seen = 0
      BY DEF NoJob
    <3> QED
      BY ONLY <1>0, <3>1, <3>2
  <2>4. CASE Decides \/ Operates \/ (Passes /\ ~NextAge) \/ UNCHANGED vars
    <3>1. UNCHANGED <<age, job>>
      BY <2>4, DecidesAlone, OperatesAlone DEF Passes, ExpireDedup, PassDeadline, vars, clock
    <3> QED
      BY <1>1, <3>1 DEF Ages
  <2> QED
    BY <2>1, <2>2, <2>3, <2>4, Actors DEF Passes
<1> QED
  BY <1>2, <1>3 DEF Ages

-----------------------------------------------------------------------------
(* One alarm an age *)

Current(a) == Exists(a) /\ alert[a].seen = age
StaysCurrent(a) == Lasts(a) /\ alert'[a].seen = age'

Steady == faults \cap {"stall", "replay"} = {}

\* In steady times what is held, or being decided, is of this age,
HoldsAreCurrent ==
    /\ job.pc \in {"hold", "due"} => Current(job.id)
    /\ hold # None => Current(hold)
    /\ \A d \in Deciders : /\ claim[d].alert # None => Current(claim[d].alert)
                           /\ claim[d].raw # None => Current(claim[d].raw)

\* and an alarm is inserted when none is OPEN any more.
OneIsOpen ==
    /\ \A a, b \in Opened : a = b
    /\ job.pc \in {"claim", "create", "release"} => Opened = {}
    /\ job.pc = "supersede" =>
         /\ Opened \subseteq {job.open} /\ alert[job.open].seen # age
         /\ job.open \in Opened => alert[job.open].version = job.version

Calm == Steady => HoldsAreCurrent /\ OneIsOpen

LEMMA CalmInit == Init => Calm
<1> SUFFICES ASSUME Init PROVE HoldsAreCurrent /\ OneIsOpen
  BY DEF Calm
<1>1. HoldsAreCurrent
  BY DEF Init, HoldsAreCurrent, NoJob, NoClaim
<1>2. Opened = {}
  BY DEF Init, Opened, NoRow
<1>3. OneIsOpen
  BY <1>2 DEF Init, OneIsOpen, NoJob
<1> QED
  BY <1>1, <1>3

LEMMA CurrentStays ==
  ASSUME TypeInv, References, [Next]_vars, age' = age, NEW a \in Alerts, Current(a)
  PROVE  StaysCurrent(a)
  BY RowsGrow DEF Grows, Current, StaysCurrent

LEMMA AgeOrNext == ASSUME [Next]_vars PROVE NextAge \/ age' = age
  BY ConsumesAlone, DecidesAlone, OperatesAlone, Actors
  DEF Passes, ExpireDedup, PassDeadline, vars, clock

LEMMA FaultsStay == ASSUME [Next]_vars PROVE faults' = faults
  BY ConsumesAlone, DecidesAlone, OperatesAlone, PassesAlone, Actors DEF vars, weather

\* The consumer at "hold" has just inserted the alarm it names.
LEMMA IdMoves ==
  ASSUME TypeInv, [Next]_vars, job'.pc \in {"hold", "due"}
  PROVE  \/ UNCHANGED job
         \/ job.pc = "hold" /\ job'.pc = "due" /\ job'.id = job.id
         \/ Create /\ job'.pc = "hold" /\ job.seen = age /\ \E a \in Fresh : create(a, job.seen) /\ job'.id = a
<1>0. job \in JobType
  BY DEF TypeInv, JobOK
<1>1. CASE Create
  <2>1. PICK a \in Fresh :
          /\ create(a, job.seen)
          /\ job' = IF job.seen = age THEN [job EXCEPT !.pc = "hold", !.id = a] ELSE NoJob
    BY <1>1 DEF Create
  <2>2. job.seen = age
    BY <2>1 DEF NoJob
  <2>3. job'.pc = "hold" /\ job'.id = a
    BY <1>0, <2>1, <2>2 DEF JobType
  <2> QED
    BY <1>1, <2>1, <2>2, <2>3
<1>2. CASE HoldAccident
  BY <1>0, <1>2 DEF HoldAccident, Goto, JobType
<1>3. CASE Consumes /\ ~Create /\ ~HoldAccident
  <2>0. ASSUME NEW seen, job' = [NoJob EXCEPT !.pc = "find", !.seen = seen] PROVE job'.pc = "find"
    BY ONLY <2>0 DEF NoJob
  <2>1. ASSUME NEW pc \in {"claim", "create", "release"}, Goto(pc) PROVE job'.pc = pc
    BY <1>0, <2>1 DEF Goto, JobType
  <2>2. NoJob.pc = "idle"
    BY DEF NoJob
  <2>3. CASE ReceiveAlarm \/ CrashAlarmConsumer
    BY <2>0, <2>3 DEF ReceiveAlarm, CrashAlarmConsumer
  <2>4. CASE Supersede \/ ClaimDedup \/ CreateFails \/ ClaimDedupFails
    BY <2>1, <2>2, <2>4 DEF Supersede, ClaimDedup, CreateFails, ClaimDedupFails
  <2>5. CASE Bump \/ ClearDedup \/ SetDeadline \/ HoldFails
    BY <2>2, <2>5 DEF Bump, ClearDedup, SetDeadline, HoldFails
  <2>6. CASE FindOpen
    <3>1. ASSUME NEW a,
                 job' = [job EXCEPT !.open = a, !.version = alert[a].version,
                           !.pc = IF alert[a].seen = job.seen THEN "bump" ELSE "supersede"]
          PROVE  job'.pc \in {"bump", "supersede"}
      BY <1>0, <3>1 DEF JobType
    <3> QED
      BY <2>1, <2>6, <3>1 DEF FindOpen
  <2> QED
    BY <1>3, <2>3, <2>4, <2>5, <2>6 DEF Consumes, Raise
<1>4. CASE Decides \/ Operates \/ Passes \/ UNCHANGED vars
  BY <1>4, DecidesAlone, OperatesAlone, PassesAlone DEF vars
<1> QED
  BY <1>1, <1>2, <1>3, <1>4, Actors

LEMMA HoldsStayCurrent ==
  ASSUME TypeInv, References, Ages, Steady, HoldsAreCurrent, [Next]_vars
  PROVE  HoldsAreCurrent'
<1>1. CASE NextAge
  <2>1. /\ job = NoJob /\ hold = None /\ \A d \in Deciders : claim[d].pc = "idle"
        /\ UNCHANGED <<hold, job, claim>>
    BY <1>1 DEF NextAge, Quiet, At, Steady
  <2>2. \A d \in Deciders : claim[d].alert = None /\ claim[d].raw = None
    BY <2>1 DEF TypeInv, ClaimsOK, ClaimBound
  <2>3. job.pc = "idle"
    BY <2>1 DEF NoJob
  <2> QED
    BY <2>1, <2>2, <2>3 DEF HoldsAreCurrent
<1>2. CASE age' = age
  <2>0. \A a \in Alerts : Current(a) => StaysCurrent(a)
    BY <1>2, CurrentStays
  <2>1. /\ hold # None => StaysCurrent(hold)
        /\ job.pc \in {"hold", "due"} => StaysCurrent(job.id)
    BY <2>0 DEF HoldsAreCurrent, TypeInv, JobOK, KeysOK
  <2>2. ASSUME NEW d \in Deciders
        PROVE  /\ claim[d].alert # None => StaysCurrent(claim[d].alert)
               /\ claim[d].raw # None => StaysCurrent(claim[d].raw)
    <3>1. claim[d].alert \in Alerts \cup {None} /\ claim[d].raw \in Alerts \cup {None}
      BY DEF TypeInv, ClaimsOK, ClaimType
    <3> QED
      BY <2>0, <3>1 DEF HoldsAreCurrent
  <2>3. ASSUME job'.pc \in {"hold", "due"} PROVE Current(job.id)'
    <3>1. CASE UNCHANGED job \/ (job.pc = "hold" /\ job'.id = job.id)
      <4>1. job'.id = job.id /\ StaysCurrent(job.id)
        BY <2>1, <2>3, <3>1
      <4> QED
        BY ONLY <4>1 DEF StaysCurrent, Current, Exists, Lasts
    <3>2. CASE Create /\ job.seen = age /\ \E a \in Fresh : create(a, job.seen) /\ job'.id = a
      <4>1. PICK a \in Fresh : create(a, job.seen) /\ job'.id = a
        BY <3>2
      <4>2. a \in Alerts
        BY DEF Fresh
      <4>3. Created(a, job.seen)
        BY <4>1, <4>2, CreateRow
      <4> QED
        BY ONLY <1>2, <3>2, <4>1, <4>3 DEF Created, Current, Exists
    <3> QED
      BY <2>3, <3>1, <3>2, IdMoves
  <2>4. hold' # None => Current(hold)'
    <3>1. hold' \in {hold, None} \/ (job.pc = "hold" /\ hold' = job.id)
      BY HoldMoves DEF HoldAccident
    <3> QED
      BY ONLY <2>1, <3>1 DEF StaysCurrent, Current, Exists, Lasts
  <2>5. ASSUME NEW e \in Deciders
        PROVE  /\ claim'[e].alert # None => Current(claim[e].alert)'
               /\ claim'[e].raw # None => Current(claim[e].raw)'
    <3>1. CASE claim'[e] = claim[e]
      BY ONLY <2>2, <3>1, e \in Deciders DEF StaysCurrent, Current, Exists, Lasts
    <3>2. CASE ClaimMoves(e)
      BY ONLY <2>1, <2>2, <3>2, e \in Deciders
      DEF ClaimMoves, StaysCurrent, Current, Exists, Lasts
    <3>3. CASE Decides
      <4>1. PICK d \in Deciders : ClaimMoves(d)
        BY <3>3, DecidersMove
      <4>2. e # d => claim'[e] = claim[e]
        BY <4>1 DEF ClaimMoves, TypeInv, ClaimsOK
      <4> QED
        BY <3>1, <3>2, <4>1, <4>2
    <3>4. CASE ~Decides
      <4>1. claim' = claim
        BY <3>4, ConsumesAlone, OperatesAlone, PassesAlone, Actors DEF vars
      <4> QED
        BY <3>1, <4>1
    <3> QED
      BY <3>3, <3>4
  <2> QED
    BY <2>3, <2>4, <2>5 DEF HoldsAreCurrent
<1> QED
  BY <1>1, <1>2, AgeOrNext

\* Only an INSERT adds to the OPEN alarms.
LEMMA OpenedMoves ==
  ASSUME TypeInv, References, [Next]_vars
  PROVE  \/ Opened' \subseteq Opened
         \/ Create /\ \E a \in Alerts : Opened' = Opened \cup {a}
<1>0. RowsMove
  BY EveryRowsMove
<1>1. ASSUME NEW a \in Alerts, NEW to, Updated(a, to), to # "OPEN" \/ to = alert[a].status
      PROVE  Opened' \subseteq Opened
  BY <1>1 DEF Updated, Opened
<1>2. ASSUME NEW a \in Alerts, Created(a, job.seen) PROVE Opened' = Opened \cup {a}
  BY <1>2 DEF Created, Opened
<1>3. UNCHANGED alert => Opened' \subseteq Opened
  BY DEF Opened
<1>4. Fresh \subseteq Alerts
  BY DEF Fresh
<1> QED
  BY <1>0, <1>1, <1>2, <1>3, <1>4 DEF RowsMove

\* How a message comes to the places of a new alarm.
LEMMA PlacesMove ==
  ASSUME TypeInv, [Next]_vars, job'.pc \in {"claim", "create", "release"}
  PROVE  \/ UNCHANGED job
         \/ FindOpen /\ Opened = {} /\ job'.pc = "claim"
         \/ Supersede /\ job'.pc = "claim"
         \/ ClaimDedup /\ ~dedup /\ job'.pc = "create"
         \/ ClaimDedupFails /\ job'.pc = "create"
         \/ CreateFails /\ job'.pc = "release"
<1>0. job \in JobType
  BY DEF TypeInv, JobOK
<1>1. ASSUME NEW seen, job' = [NoJob EXCEPT !.pc = "find", !.seen = seen] PROVE job'.pc = "find"
  BY ONLY <1>1 DEF NoJob
<1>2. ASSUME NEW pc \in JobPlaces, Goto(pc) PROVE job'.pc = pc
  BY <1>0, <1>2 DEF Goto, JobType
<1>3. NoJob.pc = "idle" /\ \A pc \in {"claim", "create", "release", "due"} : pc \in JobPlaces
  BY DEF NoJob, JobPlaces
<1>4. CASE ReceiveAlarm \/ CrashAlarmConsumer
  BY <1>1, <1>4 DEF ReceiveAlarm, CrashAlarmConsumer
<1>5. CASE FindOpen
  <2>1. ASSUME NEW a,
               job' = [job EXCEPT !.open = a, !.version = alert[a].version,
                         !.pc = IF alert[a].seen = job.seen THEN "bump" ELSE "supersede"]
        PROVE  FALSE
    BY <1>0, <2>1 DEF JobType
  <2> QED
    BY <1>2, <1>3, <1>5, <2>1 DEF FindOpen
<1>6. CASE Supersede \/ ClaimDedupFails \/ CreateFails
  BY <1>2, <1>3, <1>6 DEF Supersede, ClaimDedupFails, CreateFails
<1>7. CASE ClaimDedup
  BY <1>2, <1>3, <1>7 DEF ClaimDedup, TypeInv, KeysOK
<1>8. CASE Create
  <2>1. ASSUME NEW a, job' = [job EXCEPT !.pc = "hold", !.id = a] PROVE FALSE
    BY <1>0, <2>1 DEF JobType
  <2> QED
    BY <1>3, <1>8, <2>1 DEF Create
<1>9. CASE HoldAccident
  BY <1>2, <1>3, <1>9 DEF HoldAccident
<1>10. CASE Bump \/ ClearDedup \/ SetDeadline \/ HoldFails
  BY <1>3, <1>10 DEF Bump, ClearDedup, SetDeadline, HoldFails
<1>11. CASE Decides \/ Operates \/ Passes \/ UNCHANGED vars
  BY <1>11, DecidesAlone, OperatesAlone, PassesAlone DEF vars
<1> QED
  BY <1>4, <1>5, <1>6, <1>7, <1>8, <1>9, <1>10, <1>11, Actors DEF Consumes, Raise

\* How a message comes to supersede an alarm.
LEMMA SupersedeMoves ==
  ASSUME TypeInv, [Next]_vars, job'.pc = "supersede"
  PROVE  \/ UNCHANGED job /\ ~Consumes /\ ~NextAge
         \/ /\ FindOpen /\ UNCHANGED alert /\ job # NoJob /\ job'.seen = job.seen
            /\ \E a \in Opened : /\ job'.open = a /\ job'.version = alert[a].version
                                 /\ alert[a].seen # job.seen
<1>0. job \in JobType
  BY DEF TypeInv, JobOK
<1>1. ASSUME NEW seen, job' = [NoJob EXCEPT !.pc = "find", !.seen = seen] PROVE job'.pc = "find"
  BY ONLY <1>1 DEF NoJob
<1>2. ASSUME NEW pc \in JobPlaces, Goto(pc) PROVE job'.pc = pc
  BY <1>0, <1>2 DEF Goto, JobType
<1>3. NoJob.pc = "idle" /\ \A pc \in {"claim", "create", "release", "due"} : pc \in JobPlaces
  BY DEF NoJob, JobPlaces
<1>4. CASE ReceiveAlarm \/ CrashAlarmConsumer
  BY <1>1, <1>4 DEF ReceiveAlarm, CrashAlarmConsumer
<1>5. CASE FindOpen
  <2>1. UNCHANGED alert /\ job # NoJob
    <3>1. job.pc = "find" /\ UNCHANGED rows
      BY <1>5, Zenon DEF FindOpen
    <3> QED
      BY <1>3, <3>1 DEF rows
  <2>2. PICK a \in Opened :
          job' = [job EXCEPT !.open = a, !.version = alert[a].version,
                    !.pc = IF alert[a].seen = job.seen THEN "bump" ELSE "supersede"]
    BY <1>2, <1>3, <1>5 DEF FindOpen
  <2>3. /\ job'.open = a /\ job'.version = alert[a].version /\ job'.seen = job.seen
        /\ job'.pc = IF alert[a].seen = job.seen THEN "bump" ELSE "supersede"
    BY <1>0, <2>2 DEF JobType
  <2> QED
    BY <1>5, <2>1, <2>3
<1>6. CASE Supersede \/ ClaimDedup \/ ClaimDedupFails \/ CreateFails \/ HoldAccident
  BY <1>2, <1>3, <1>6 DEF Supersede, ClaimDedup, ClaimDedupFails, CreateFails, HoldAccident
<1>7. CASE Create
  <2>1. ASSUME NEW a, job' = [job EXCEPT !.pc = "hold", !.id = a] PROVE FALSE
    BY <1>0, <2>1 DEF JobType
  <2> QED
    BY <1>3, <1>7, <2>1 DEF Create
<1>8. CASE Bump \/ ClearDedup \/ SetDeadline \/ HoldFails
  BY <1>3, <1>8 DEF Bump, ClearDedup, SetDeadline, HoldFails
<1>9. CASE ~Consumes
  <2>1. UNCHANGED job
    BY <1>9, DecidesAlone, OperatesAlone, PassesAlone, Actors DEF vars
  <2>2. ~NextAge
    BY <1>3, <2>1 DEF NextAge
  <2> QED
    BY <1>9, <2>1, <2>2
<1> QED
  BY <1>4, <1>5, <1>6, <1>7, <1>8, <1>9 DEF Consumes, Raise

LEMMA OneStaysOpen ==
  ASSUME TypeInv, References, Ages, Steady, HoldsAreCurrent, OneIsOpen, [Next]_vars
  PROVE  OneIsOpen'
<1>0. /\ \A a, b \in Opened : a = b
      /\ job.pc \in {"claim", "create", "release"} => Opened = {}
      /\ job.pc = "supersede" =>
           /\ Opened \subseteq {job.open} /\ alert[job.open].seen # age
           /\ job.open \in Opened => alert[job.open].version = job.version
      /\ job # NoJob => job.seen = age
  BY DEF OneIsOpen, Ages, Steady
<1>1. \A a, b \in Opened' : a = b
  <2>1. CASE Opened' \subseteq Opened
    BY <1>0, <2>1
  <2>2. CASE Create /\ \E a \in Alerts : Opened' = Opened \cup {a}
    <3>1. Opened = {}
      BY <1>0, <2>2 DEF Create
    <3> QED
      BY ONLY <2>2, <3>1
  <2> QED
    BY <2>1, <2>2, OpenedMoves
<1>2. ASSUME job'.pc \in {"claim", "create", "release"} PROVE Opened' = {}
  <2>1. CASE Supersede
    <3>1. job.open \in Alerts /\ job.pc = "supersede"
      BY <2>1 DEF Supersede, TypeInv, JobOK
    <3>2. \/ UNCHANGED alert /\ alert[job.open].version # job.version
          \/ Updated(job.open, "RESOLVED")
      BY <2>1, <3>1, StatusRow DEF Supersede
    <3>3. CASE UNCHANGED alert /\ alert[job.open].version # job.version
      BY <1>0, <3>1, <3>3 DEF Opened
    <3>4. CASE Updated(job.open, "RESOLVED")
      <4>1. ASSUME NEW b \in Opened' PROVE FALSE
        <5>1. b \in Alerts /\ alert'[b].status = "OPEN"
          BY <4>1 DEF Opened
        <5>2. b # job.open /\ alert'[b] = alert[b]
          BY <3>4, <5>1 DEF Updated
        <5>3. b \in Opened
          BY <5>1, <5>2 DEF Opened
        <5> QED
          BY <1>0, <3>1, <5>2, <5>3
      <4> QED
        BY <4>1
    <3> QED
      BY <3>2, <3>3, <3>4
  <2>2. CASE ~Supersede
    <3>1. Opened = {} /\ ~Create
      <4>1. NoJob.pc = "idle"
        BY DEF NoJob
      <4>2. job'.pc = job.pc => ~Create
        <5>1. ASSUME NEW a, job' = [job EXCEPT !.pc = "hold", !.id = a] PROVE FALSE
          BY <1>2, <5>1 DEF TypeInv, JobOK, JobType
        <5> QED
          BY <1>2, <4>1, <5>1 DEF Create
      <4>3. FindOpen => ~Create
        BY Zenon DEF FindOpen, Create
      <4>4. ClaimDedup \/ ClaimDedupFails => ~Create /\ job.pc = "claim"
        BY Zenon DEF ClaimDedup, ClaimDedupFails, Create
      <4>5. CreateFails => job.pc = "create"
        BY DEF CreateFails
      <4>6. Create => job'.pc \notin {"release"}
        <5>1. ASSUME NEW a, job' = [job EXCEPT !.pc = "hold", !.id = a] PROVE job'.pc = "hold"
          BY <5>1 DEF TypeInv, JobOK, JobType
        <5> QED
          BY <4>1, <5>1 DEF Create
      <4> QED
        BY <1>0, <1>2, <2>2, <4>2, <4>3, <4>4, <4>5, <4>6, PlacesMove
    <3> QED
      BY <3>1, OpenedMoves
  <2> QED
    BY <2>1, <2>2
<1>3. ASSUME job'.pc = "supersede"
      PROVE  /\ Opened' \subseteq {job'.open} /\ alert'[job'.open].seen # age'
             /\ job'.open \in Opened' => alert'[job'.open].version = job'.version
  <2>1. CASE /\ FindOpen /\ UNCHANGED alert /\ job # NoJob /\ job'.seen = job.seen
             /\ \E a \in Opened : /\ job'.open = a /\ job'.version = alert[a].version
                                  /\ alert[a].seen # job.seen
    <3>1. Opened' = Opened /\ age' = age
      BY <2>1 DEF Opened, FindOpen, clock
    <3> QED
      BY ONLY <1>0, <2>1, <3>1
  <2>2. CASE UNCHANGED job /\ ~Consumes /\ ~NextAge
    <3>1. job.open \in Alerts /\ Exists(job.open) /\ job.pc = "supersede"
      BY <1>3, <2>2 DEF TypeInv, JobOK, References, JobRefers
    <3>2. age' = age /\ ~Bump /\ ~Supersede /\ ~Create
      BY <2>2, AgeOrNext DEF Consumes, Raise
    <3>3. Opened' \subseteq Opened
      BY <3>2, OpenedMoves
    <3>4. alert'[job.open].seen = alert[job.open].seen
      BY <3>1, RowsGrow DEF Grows
    <3>5. job.open \in Opened' => alert'[job.open].version = alert[job.open].version
      <4>1. RowsMove
        BY EveryRowsMove
      <4>2. ASSUME NEW d \in Deciders, Confirm(d), Updated(claim[d].alert, alert[claim[d].alert].status)
            PROVE  alert'[job.open] = alert[job.open]
        <5>1. claim[d].alert \in Alerts
          BY <4>2 DEF Confirm, At, TypeInv, ClaimsOK, ClaimBound
        <5>2. Current(claim[d].alert)
          BY <5>1, NamesAssumption DEF HoldsAreCurrent
        <5>3. claim[d].alert # job.open
          BY <1>0, <3>1, <5>2 DEF Current
        <5> QED
          BY <3>1, <4>2, <5>3 DEF Updated
      <4>3. ASSUME NEW a \in Alerts, NEW to \in {"ACKNOWLEDGED", "RESOLVED"}, Updated(a, to),
                   job.open \in Opened'
            PROVE  alert'[job.open] = alert[job.open]
        <5>1. a # job.open
          BY <4>3 DEF Updated, Opened
        <5> QED
          BY <3>1, <4>3, <5>1 DEF Updated
      <4> QED
        BY <3>2, <4>1, <4>2, <4>3 DEF RowsMove
    <3> QED
      BY <1>0, <2>2, <3>1, <3>2, <3>3, <3>4, <3>5
  <2> QED
    BY <1>3, <2>1, <2>2, SupersedeMoves
<1> QED
  BY <1>1, <1>2, <1>3 DEF OneIsOpen

LEMMA CalmStep == TypeInv /\ References /\ Ages /\ Calm /\ [Next]_vars => Calm'
<1> SUFFICES ASSUME TypeInv, References, Ages, Calm, [Next]_vars, Steady'
             PROVE  HoldsAreCurrent' /\ OneIsOpen'
  BY DEF Calm
<1>1. Steady
  BY FaultsStay DEF Steady
<1>2. HoldsAreCurrent /\ OneIsOpen
  BY <1>1 DEF Calm
<1> QED
  BY <1>1, <1>2, HoldsStayCurrent, OneStaysOpen


-----------------------------------------------------------------------------
(* One place decides *)

\* The decider that has deleted the key, on its way to finish the alarm.
Winner(d) == \/ claim[d].pc = "zrem" /\ claim[d].raw # None
             \/ claim[d].pc \in {"find", "detail", "notify"}

\* The alarm of this age has neither been told nor cancelled.
Undecided == \A a \in Alerts : Current(a) => notified[a] = 0 /\ a \notin cancelled

\* When nothing makes an alarm be decided twice, the alarm of this age is OPEN,
CurrentIsOpen == desk = NoRequest /\ \A a \in Alerts : Current(a) => a \in Opened

\* and the right to decide it is with the consumer, then in Redis, then with one
\* decider, until it has been decided.
OneDecides ==
    /\ job.pc = "hold" =>
         /\ Undecided /\ hold = None
         /\ \A d \in Deciders : claim[d].alert = None /\ claim[d].raw = None
    /\ hold # None => Undecided /\ \A d \in Deciders : ~Winner(d)
    /\ \A d \in Deciders : Winner(d) => Undecided
    /\ \A d, e \in Deciders : Winner(d) /\ Winner(e) => d = e
    /\ \A a \in cancelled : notified[a] = 0

Token == Careful => CurrentIsOpen /\ OneDecides

LEMMA TokenInit == Init => Token
<1> SUFFICES ASSUME Init PROVE CurrentIsOpen /\ OneDecides
  BY DEF Token
<1>1. \A a \in Alerts : ~Current(a)
  BY DEF Init, Current, Exists, NoRow
<1>2. \A d \in Deciders : ~Winner(d)
  BY DEF Init, Winner, NoClaim
<1> QED
  BY <1>1, <1>2 DEF Init, CurrentIsOpen, OneDecides, NoJob

\* What careful times exclude.
LEMMA CarefulTimes ==
  ASSUME Careful
  PROVE  /\ Steady
         /\ ~HoldFails /\ ~ClaimDedupFails /\ \A d \in Deciders : ~ClaimFails(d)
         /\ \A a, to : ~Request(a, to)
  BY DEF Careful, Steady, HoldFails, ClaimDedupFails, ClaimFails, Request, Trouble

LEMMA NoneCurrent ==
  ASSUME OneIsOpen, CurrentIsOpen, NEW a \in Alerts,
         job.pc \in {"supersede", "claim", "create", "release"}
  PROVE  ~Current(a)
  BY DEF OneIsOpen, CurrentIsOpen, Current

\* An alarm that is of this age was so before, or is new.
LEMMA CurrentWas ==
  ASSUME TypeInv, References, Ages, [Next]_vars, NEW a \in Alerts, Current(a)'
  PROVE  /\ Current(a) \/ ~Exists(a)
         /\ age' = age
         /\ ~Exists(a) => alert'[a].status = "OPEN"
<1>1. RowsMove
  BY EveryRowsMove
<1>2. Exists(a) => alert'[a].seen = alert[a].seen
  BY RowsGrow DEF Grows
<1>3. ASSUME ~Exists(a)
      PROVE  Create /\ alert'[a].status = "OPEN"
  <2>1. alert'[a] # alert[a]
    BY <1>3 DEF Current, Exists
  <2>2. ASSUME NEW b \in Alerts, NEW to, Updated(b, to), Exists(b) PROVE FALSE
    BY <1>3, <2>1, <2>2 DEF Updated
  <2>3. ASSUME NEW b, Created(b, job.seen) PROVE alert'[a].status = "OPEN"
    BY <2>1, <2>3 DEF Created
  <2>4. Supersede => Exists(job.open)
    BY DEF Supersede, References, JobRefers
  <2>5. Respond => Exists(desk.alert)
    BY DEF Respond, References, DeskRefers
  <2> QED
    BY <1>1, <2>1, <2>2, <2>3, <2>4, <2>5 DEF RowsMove
<1>4. age' = age
  <2>1. CASE NextAge
    <3>1. age' = age + 1 /\ UNCHANGED alert
      BY <2>1 DEF NextAge, rows
    <3>2. alert[a].seen <= age /\ alert[a].seen \in Nat /\ age \in Nat
      BY DEF Ages, TypeInv, ClockOK, RowsOK, RowType
    <3>3. alert[a].seen = age + 1
      BY <3>1 DEF Current
    <3> QED
      BY ONLY <3>2, <3>3
  <2> QED
    BY <2>1, AgeOrNext
<1> QED
  BY <1>2, <1>3, <1>4 DEF Current

LEMMA UndecidedStays ==
  ASSUME TypeInv, References, Ages, [Next]_vars, Undecided, UNCHANGED told
  PROVE  Undecided'
<1> SUFFICES ASSUME NEW a \in Alerts, Current(a)' PROVE notified'[a] = 0 /\ a \notin cancelled'
  BY DEF Undecided
<1>1. Current(a) \/ ~Exists(a)
  BY CurrentWas
<1> QED
  BY <1>1 DEF Undecided, References, ToldRefers, told

LEMMA CurrentIsOpenStep ==
  ASSUME TypeInv, References, Ages, Careful, OneIsOpen, CurrentIsOpen, [Next]_vars
  PROVE  CurrentIsOpen'
<1>0. desk.pc = "idle"
  BY DEF CurrentIsOpen, NoRequest
<1>1. desk' = NoRequest
  <2>1. ~Operates
    BY <1>0, CarefulTimes DEF Operates, Respond
  <2> QED
    BY <2>1, ConsumesAlone, DecidesAlone, PassesAlone, Actors DEF vars, CurrentIsOpen
<1>2. ASSUME NEW a \in Alerts, Current(a)' PROVE a \in Opened'
  <2>1. CASE ~Exists(a)
    BY <1>2, <2>1, CurrentWas DEF Opened
  <2>2. CASE Current(a)
    <3>1. alert[a].status = "OPEN"
      BY <2>2 DEF CurrentIsOpen, Opened
    <3>2. ~Supersede /\ ~Respond
      BY <1>0, <2>2, NoneCurrent DEF Supersede, Respond
    <3>3. ASSUME NEW b \in Alerts, Updated(b, alert[b].status) PROVE alert'[a].status = "OPEN"
      BY <3>1, <3>3 DEF Updated
    <3>4. ASSUME NEW b, Created(b, job.seen) PROVE alert'[a].status = "OPEN"
      BY <3>1, <3>4 DEF Created
    <3>5. alert'[a].status = "OPEN"
      BY <3>1, <3>2, <3>3, <3>4, EveryRowsMove DEF RowsMove
    <3> QED
      BY <3>5 DEF Opened
  <2> QED
    BY <1>2, <2>1, <2>2, CurrentWas
<1> QED
  BY <1>1, <1>2 DEF CurrentIsOpen

\* Who tells and who cancels.
LEMMA ToldMoves ==
  ASSUME Careful, [Next]_vars
  PROVE  UNCHANGED told \/ \E d \in Deciders : Confirm(d) \/ Notify(d)
<1>1. Consumes => UNCHANGED told
  BY CarefulTimes DEF Consumes, Raise, ReceiveAlarm, FindOpen, Supersede, Bump, ClaimDedup,
     Create, ClearDedup, HoldAccident, SetDeadline, CreateFails, CrashAlarmConsumer
<1>2. Decides => UNCHANGED told \/ \E d \in Deciders : Confirm(d) \/ Notify(d)
  BY DEF Decides, Decide, ReadHold, SweepDue, GetHold, DelHold, ZremHold, FindHeld, ClaimFails,
     CrashDecider
<1>3. Operates \/ Passes \/ UNCHANGED vars => UNCHANGED told
  BY OperatesAlone, PassesAlone DEF vars
<1> QED
  BY <1>1, <1>2, <1>3, Actors

\* A decider wins by deleting the key.
LEMMA WinnersMove ==
  ASSUME TypeInv, [Next]_vars, NEW e \in Deciders, Winner(e)'
  PROVE  Winner(e) \/ (DelHold(e) /\ hold # None)
<1>0. claim \in [Deciders -> ClaimType] /\ claim[e] \in ClaimType
  BY DEF TypeInv, ClaimsOK
<1>1. ASSUME claim'[e] = claim[e] PROVE Winner(e)
  BY <1>1 DEF Winner
<1>2. CASE ~Decides
  <2>1. UNCHANGED claim
    BY <1>2, ConsumesAlone, OperatesAlone, PassesAlone, Actors DEF vars
  <2> QED
    BY <1>1, <2>1
<1>3. ASSUME NEW d \in Deciders, claim' = [claim EXCEPT ![d] = NoClaim] PROVE Winner(e)
  <2>1. CASE e = d
    BY <1>0, <1>3, <2>1 DEF NoClaim, Winner
  <2>2. CASE e # d
    BY <1>0, <1>1, <1>3, <2>2
  <2> QED
    BY <2>1, <2>2
<1>4. CASE ReadHold
  <2>1. Positions \in Deciders
    BY DEF Deciders
  <2>2. PICK verdict : claim' = [claim EXCEPT ![Positions] =
                     [NoClaim EXCEPT !.pc = "get", !.alert = hold, !.verdict = verdict]]
    BY <1>4 DEF ReadHold
  <2>3. e = Positions => claim'[e].pc = "get"
    BY <1>0, <2>1, <2>2 DEF NoClaim
  <2>4. e # Positions => claim'[e] = claim[e]
    BY <1>0, <2>2
  <2> QED
    BY <1>1, <2>3, <2>4 DEF Winner
<1>5. ASSUME NEW s \in Sweepers, SweepDue(s) PROVE Winner(e)
  <2>1. e = s => claim'[e].pc = "get"
    BY <1>0, <1>5 DEF SweepDue, NoClaim
  <2>2. e # s => claim'[e] = claim[e]
    BY <1>0, <1>5 DEF SweepDue
  <2> QED
    BY <1>1, <2>1, <2>2 DEF Winner
<1>6. ASSUME NEW d \in Deciders, d # e, Decide(d) PROVE Winner(e)
  <2>1. claim'[e] = claim[e]
    <3>1. ASSUME NEW c, claim' = [claim EXCEPT ![d] = c] PROVE claim'[e] = claim[e]
      BY <1>0, <1>6, <3>1
    <3>2. GetHold(d) \/ DelHold(d) => claim'[e] = claim[e]
      BY <1>0, <1>6 DEF GetHold, DelHold
    <3>3. ZremHold(d) \/ FindHeld(d) => claim'[e] = claim[e]
      BY <1>0, <1>6 DEF ZremHold, FindHeld
    <3>4. Confirm(d) \/ Notify(d) => claim'[e] = claim[e]
      BY <1>0, <1>6 DEF Confirm, Notify, To
    <3> QED
      BY <1>6, <3>2, <3>3, <3>4 DEF Decide
  <2> QED
    BY <1>1, <2>1
<1>7. CASE GetHold(e)
  BY <1>0, <1>7 DEF GetHold, Winner, ClaimType
<1>8. CASE DelHold(e)
  <2>1. claim'[e].pc = "zrem" /\ claim'[e].raw = IF hold = None THEN None ELSE claim[e].raw
    BY <1>0, <1>8 DEF DelHold, ClaimType
  <2> QED
    BY <1>8, <2>1 DEF Winner
<1>9. CASE ZremHold(e)
  <2>1. CASE claim[e].raw = None
    BY <1>3, <1>9, <2>1 DEF ZremHold
  <2>2. CASE claim[e].raw # None
    BY <1>9, <2>2 DEF ZremHold, At, Winner
  <2> QED
    BY <2>1, <2>2
<1>10. CASE FindHeld(e) \/ Confirm(e) \/ Notify(e)
  BY <1>10 DEF FindHeld, Confirm, Notify, At, Winner
<1>11. ASSUME NEW d \in Deciders, ClaimFails(d) \/ CrashDecider(d) PROVE Winner(e)
  BY <1>3, <1>11 DEF ClaimFails, CrashDecider
<1> QED
  BY <1>2, <1>4, <1>5, <1>6, <1>7, <1>8, <1>9, <1>10, <1>11 DEF Decides, Decide

\* Who tells or cancels is the winner, and then no longer.
LEMMA TellersWin ==
  ASSUME TypeInv, NEW d \in Deciders, Confirm(d) \/ Notify(d)
  PROVE  /\ Winner(d) /\ claim[d].alert \in Alerts
         /\ ~Winner(d)' \/ UNCHANGED told
<1>1. Winner(d) /\ claim[d].alert \in Alerts
  BY DEF Confirm, Notify, At, Winner, TypeInv, ClaimsOK, ClaimBound
<1>2. ASSUME claim' = [claim EXCEPT ![d] = NoClaim] PROVE ~Winner(d)'
  BY <1>2 DEF TypeInv, ClaimsOK, NoClaim, Winner
<1>3. Confirm(d) => ~Winner(d)' \/ UNCHANGED told
  BY <1>2 DEF Confirm, told
<1>4. Notify(d) => ~Winner(d)'
  BY <1>2 DEF Notify
<1> QED
  BY <1>1, <1>3, <1>4

\* Nothing is held and nobody decides.
NobodyHolds == hold = None /\ \A d \in Deciders : claim[d].alert = None /\ claim[d].raw = None

LEMMA NoWinner == ASSUME TypeInv, NobodyHolds PROVE \A d \in Deciders : ~Winner(d)
  BY NamesAssumption DEF NobodyHolds, Winner, TypeInv, ClaimsOK, ClaimBound

\* Then nothing is told or cancelled, and only the consumer can hold an alarm.
LEMMA NobodyMoves ==
  ASSUME TypeInv, Careful, NobodyHolds, [Next]_vars
  PROVE  UNCHANGED told /\ (NobodyHolds' \/ HoldAccident)
<1>1. UNCHANGED told
  BY NoWinner, TellersWin, ToldMoves
<1>2. hold' = None \/ HoldAccident
  BY HoldMoves DEF NobodyHolds
<1>3. \A d \in Deciders : claim'[d].alert = None /\ claim'[d].raw = None
  <2>1. CASE Decides
    <3>1. PICK e \in Deciders : ClaimMoves(e)
      BY <2>1, DecidersMove
    <3>2. claim'[e].alert = None /\ claim'[e].raw = None
      BY <3>1 DEF ClaimMoves, NobodyHolds
    <3>3. ASSUME NEW d \in Deciders, d # e PROVE claim'[d] = claim[d]
      BY <3>1, <3>3 DEF ClaimMoves, TypeInv, ClaimsOK
    <3> QED
      BY <3>2, <3>3 DEF NobodyHolds
  <2>2. CASE ~Decides
    <3>1. UNCHANGED claim
      BY <2>2, ConsumesAlone, OperatesAlone, PassesAlone, Actors DEF vars
    <3> QED
      BY <3>1 DEF NobodyHolds
  <2> QED
    BY <2>1, <2>2
<1> QED
  BY <1>1, <1>2, <1>3 DEF NobodyHolds

\* An alarm about to be held has just been raised.
LEMMA HoldPlace ==
  ASSUME TypeInv, References, Ages, Careful, HoldsAreCurrent, OneIsOpen, CurrentIsOpen,
         OneDecides, [Next]_vars, job'.pc = "hold"
  PROVE  Undecided' /\ NobodyHolds'
<1>1. CASE UNCHANGED job
  <2>1. Undecided /\ NobodyHolds
    BY <1>1 DEF OneDecides, NobodyHolds
  <2>2. ~HoldAccident
    <3>1. HoldAccident => job'.pc = "due"
      BY DEF HoldAccident, Goto, TypeInv, JobOK, JobType
    <3> QED
      BY <3>1
  <2> QED
    BY <2>1, <2>2, NobodyMoves, UndecidedStays
<1>2. CASE Create
  <2>1. job.pc = "create" /\ UNCHANGED <<hold, claim>> /\ UNCHANGED told
    BY <1>2, Zenon DEF Create, keys
  <2>2. \A a \in Alerts : ~Current(a)
    BY <2>1, NoneCurrent
  <2>3. hold = None
    BY <2>2 DEF HoldsAreCurrent, TypeInv, KeysOK
  <2>4. ASSUME NEW d \in Deciders PROVE claim[d].alert = None /\ claim[d].raw = None
    BY <2>2, <2>4 DEF HoldsAreCurrent, TypeInv, ClaimsOK, ClaimType
  <2>5. Undecided
    BY <2>2 DEF Undecided
  <2> QED
    BY <2>1, <2>3, <2>4, <2>5, UndecidedStays DEF NobodyHolds
<1> QED
  BY <1>1, <1>2, IdMoves

LEMMA OneDecidesStep ==
  ASSUME TypeInv, References, Ages, Careful, HoldsAreCurrent, OneIsOpen, CurrentIsOpen,
         OneDecides, [Next]_vars
  PROVE  OneDecides'
<1>1. job'.pc = "hold" => /\ Undecided' /\ hold' = None
                          /\ \A d \in Deciders : claim'[d].alert = None /\ claim'[d].raw = None
  BY HoldPlace DEF NobodyHolds
<1>2. ASSUME hold' # None PROVE Undecided' /\ \A d \in Deciders : ~Winner(d)'
  <2>1. Undecided /\ (\A d \in Deciders : ~Winner(d)) /\ UNCHANGED told
    <3>1. CASE HoldAccident
      <4>1. Undecided /\ NobodyHolds /\ UNCHANGED told
        BY <3>1, Zenon DEF HoldAccident, OneDecides, NobodyHolds
      <4> QED
        BY <4>1, NoWinner
    <3>2. CASE hold' = hold
      <4>1. Undecided /\ \A d \in Deciders : ~Winner(d)
        BY <1>2, <3>2 DEF OneDecides
      <4> QED
        BY <4>1, TellersWin, ToldMoves
    <3> QED
      BY <1>2, <3>1, <3>2, HoldMoves
  <2>2. \A d \in Deciders : DelHold(d) => hold' = None
    BY Zenon DEF DelHold
  <2> QED
    BY <1>2, <2>1, <2>2, UndecidedStays, WinnersMove
<1>3. ASSUME NEW d \in Deciders, Winner(d)' PROVE Undecided'
  <2>1. CASE Winner(d)
    <3>1. Undecided /\ \A e \in Deciders : Winner(e) => e = d
      BY <2>1 DEF OneDecides
    <3>2. UNCHANGED told
      BY <1>3, <3>1, TellersWin, ToldMoves
    <3> QED
      BY <3>1, <3>2, UndecidedStays
  <2>2. CASE DelHold(d) /\ hold # None
    <3>1. Undecided /\ UNCHANGED told
      BY <2>2, Zenon DEF OneDecides, DelHold
    <3> QED
      BY <3>1, UndecidedStays
  <2> QED
    BY <1>3, <2>1, <2>2, WinnersMove
<1>4. ASSUME NEW d \in Deciders, NEW e \in Deciders, Winner(d)', Winner(e)' PROVE d = e
  <2>1. \A f \in {d, e} : Winner(f) \/ (DelHold(f) /\ hold # None)
    BY <1>4, WinnersMove
  <2>2. CASE hold = None
    BY <2>1, <2>2 DEF OneDecides
  <2>3. CASE hold # None
    <3>1. DelHold(d) /\ DelHold(e)
      BY <2>1, <2>3 DEF OneDecides
    <3>2. ASSUME d # e PROVE claim'[e] = claim[e]
      BY <3>1, <3>2 DEF DelHold, TypeInv, ClaimsOK
    <3>3. ASSUME d # e PROVE FALSE
      BY <1>4, <2>3, <3>2, <3>3 DEF OneDecides, Winner
    <3> QED
      BY <3>3
  <2> QED
    BY <2>2, <2>3
<1>5. \A a \in cancelled' : notified'[a] = 0
  <2>0. notified \in [Alerts -> Nat] /\ \A a \in cancelled : notified[a] = 0
    BY DEF TypeInv, ToldOK, OneDecides
  <2>1. CASE UNCHANGED told
    BY <2>0, <2>1 DEF told
  <2>2. ASSUME NEW d \in Deciders, Confirm(d) \/ Notify(d)
        PROVE  notified[claim[d].alert] = 0 /\ claim[d].alert \notin cancelled
    <3>1. Winner(d) /\ claim[d].alert \in Alerts
      BY <2>2, TellersWin
    <3>2. Current(claim[d].alert)
      BY <3>1, NamesAssumption DEF HoldsAreCurrent
    <3> QED
      BY <3>1, <3>2 DEF OneDecides, Undecided
  <2>3. ASSUME NEW d \in Deciders, Confirm(d) PROVE \A a \in cancelled' : notified'[a] = 0
    <3>1. notified' = notified /\ cancelled' \subseteq cancelled \cup {claim[d].alert}
      BY <2>3, Zenon DEF Confirm
    <3> QED
      BY <2>0, <2>2, <2>3, <3>1
  <2>4. ASSUME NEW d \in Deciders, Notify(d) PROVE \A a \in cancelled' : notified'[a] = 0
    <3>1. /\ notified' = [notified EXCEPT ![claim[d].alert] = @ + 1]
          /\ cancelled' = cancelled
      BY <2>4 DEF Notify
    <3>2. claim[d].alert \notin cancelled
      BY <2>2, <2>4
    <3>3. cancelled \subseteq Alerts
      BY DEF TypeInv, ToldOK
    <3> QED
      BY ONLY <2>0, <3>1, <3>2, <3>3
  <2> QED
    BY <2>1, <2>3, <2>4, ToldMoves
<1> QED
  BY <1>1, <1>2, <1>3, <1>4, <1>5 DEF OneDecides

LEMMA TokenStep == TypeInv /\ References /\ Ages /\ Calm /\ Token /\ [Next]_vars => Token'
<1> SUFFICES ASSUME TypeInv, References, Ages, Calm, Token, [Next]_vars, Careful'
             PROVE  CurrentIsOpen' /\ OneDecides'
  BY DEF Token
<1>1. Careful
  BY FaultsStay DEF Careful
<1>2. HoldsAreCurrent /\ OneIsOpen
  BY <1>1, CarefulTimes DEF Calm
<1>3. CurrentIsOpen /\ OneDecides
  BY <1>1 DEF Token
<1> QED
  BY <1>1, <1>2, <1>3, CurrentIsOpenStep, OneDecidesStep

-----------------------------------------------------------------------------
(* The dedup key *)

\* Neither a crash, nor Redis, nor an old detection comes between the key and the
\* alarm it was set for.
Sober == faults \cap {"crash", "redis", "replay"} = {}

Dedup == Sober =>
    (dedup /\ job.pc \notin {"create", "release"} => \E a \in Alerts : Current(a))

LEMMA DedupInit == Init => Dedup
  BY DEF Init, Dedup

\* The key is set already, or its alarm is inserted now.
LEMMA DedupMoves ==
  ASSUME TypeInv, Sober, [Next]_vars, dedup' = TRUE, job'.pc \notin {"create", "release"}
  PROVE  /\ Create \/ (dedup /\ job.pc \notin {"create", "release"})
         /\ ~NextAge
<1>0. job \in JobType
  BY DEF TypeInv, JobOK
<1>1. ASSUME NEW pc \in {"create", "release"}, Goto(pc) PROVE FALSE
  BY <1>0, <1>1 DEF Goto, JobType
<1>2. ~CrashAlarmConsumer /\ ~ClaimDedupFails /\ ~HoldFails
  BY DEF Sober, CrashAlarmConsumer, ClaimDedupFails, HoldFails, Trouble
<1>3. CASE ClaimDedup
  BY <1>1, <1>3 DEF ClaimDedup, NextAge, NoJob
<1>4. CASE CreateFails \/ ClearDedup
  BY <1>1, <1>4 DEF CreateFails, ClearDedup
<1>5. CASE ReceiveAlarm \/ Supersede \/ Bump \/ HoldAccident \/ SetDeadline
  <2>1. UNCHANGED dedup
    BY <1>5, Zenon DEF ReceiveAlarm, Supersede, Bump, HoldAccident, SetDeadline, keys
  <2>2. ReceiveAlarm => job = NoJob
    BY Zenon DEF ReceiveAlarm
  <2>3. /\ Supersede => job.pc = "supersede"
        /\ Bump => job.pc = "bump"
        /\ HoldAccident => job.pc = "hold"
        /\ SetDeadline => job.pc = "due"
    BY Zenon DEF Supersede, Bump, HoldAccident, SetDeadline
  <2>4. NoJob.pc = "idle"
    BY DEF NoJob
  <2>5. job.pc \notin {"create", "release"}
    BY ONLY <1>5, <2>2, <2>3, <2>4
  <2>6. ~NextAge
    BY DEF NextAge
  <2> QED
    BY <2>1, <2>5, <2>6
<1>6. CASE FindOpen
  <2>1. UNCHANGED dedup /\ job.pc = "find"
    BY <1>6, Zenon DEF FindOpen, keys
  <2>2. ~NextAge
    BY DEF NextAge
  <2> QED
    BY <2>1, <2>2
<1>7. CASE Create
  <2>1. ~NextAge
    BY DEF NextAge
  <2> QED
    BY <1>7, <2>1
<1>8. CASE Decides \/ Operates \/ UNCHANGED vars
  <2>1. UNCHANGED <<dedup, job>>
    BY <1>8, DecidesAlone, OperatesAlone DEF vars, keys
  <2>2. ~NextAge
    BY DEF NextAge
  <2> QED
    BY <2>1, <2>2
<1>9. CASE Passes
  BY <1>9 DEF Passes, ExpireDedup, PassDeadline, NextAge
<1> QED
  BY <1>2, <1>3, <1>4, <1>5, <1>6, <1>7, <1>8, <1>9, Actors DEF Consumes, Raise

\* The row a message inserts is the lowest that is free.
LEMMA CreatedRow ==
  ASSUME TypeInv, Create
  PROVE  \E a \in Fresh : a \in Alerts /\ Created(a, job.seen)
<1>1. PICK a \in Fresh : create(a, job.seen)
  BY DEF Create
<1>2. a \in Alerts
  BY DEF Fresh
<1> QED
  BY <1>1, <1>2, CreateRow

\* A message that inserts, or is about to, is of this age.
LEMMA CreateIsNow ==
  ASSUME Ages, "replay" \notin faults, job.pc # "idle"
  PROVE  job.seen = age
  BY DEF Ages, NoJob

LEMMA DedupStep == TypeInv /\ References /\ Ages /\ Dedup /\ [Next]_vars => Dedup'
<1> SUFFICES ASSUME TypeInv, References, Ages, Dedup, [Next]_vars,
                    Sober', dedup' = TRUE, job'.pc \notin {"create", "release"}
             PROVE  \E a \in Alerts : Current(a)'
  BY DEF Dedup
<1>1. Sober
  BY FaultsStay DEF Sober
<1>2. age' = age
  BY <1>1, DedupMoves, AgeOrNext
<1>3. CASE Create
  <2>1. PICK a \in Alerts : Created(a, job.seen)
    BY <1>3, CreatedRow
  <2>2. job.seen = age
    BY <1>1, <1>3, CreateIsNow, Zenon DEF Create, Sober
  <2> QED
    BY <1>2, <2>1, <2>2 DEF Created, Current, Exists
<1>4. CASE dedup /\ job.pc \notin {"create", "release"}
  <2>1. PICK a \in Alerts : Current(a)
    BY <1>1, <1>4 DEF Dedup
  <2>2. StaysCurrent(a)
    BY <1>2, <2>1, CurrentStays
  <2> QED
    BY <2>2 DEF StaysCurrent, Lasts, Current, Exists
<1> QED
  BY <1>1, <1>3, <1>4, DedupMoves

-----------------------------------------------------------------------------
(* Superseding *)

\* Nothing but people and late decisions.
Plain == faults \subseteq {"operator", "stall"}

\* Alarms are raised in the order of their ids and of their ages.
InOrder ==
    \A a, b \in Alerts : a < b /\ Exists(b) => Exists(a) /\ alert[a].seen <= alert[b].seen

Superseded(a) == audit[a].status = "RESOLVED" /\ audit[a].actor = "system"
Successor(a) == \E b \in Alerts : b > a /\ Exists(b)

\* What is superseded is of an earlier age, and has a successor when the message
\* is done.
Replaced ==
    /\ job.pc = "supersede" => alert[job.open].seen # age
    /\ \A a \in Alerts : Superseded(a) =>
         /\ Exists(a)
         /\ Successor(a) \/ (job.pc \in {"claim", "create"} /\ alert[a].seen # age)

Order == Plain => InOrder /\ Replaced

LEMMA OrderInit == Init => Order
<1> SUFFICES ASSUME Init PROVE InOrder /\ Replaced
  BY DEF Order
<1>1. InOrder
  BY DEF Init, InOrder, Exists, NoRow
<1>2. Replaced
  BY DEF Init, Replaced, Superseded, NoJob
<1> QED
  BY <1>1, <1>2

LEMMA PlainTimes ==
  ASSUME Plain
  PROVE  /\ Sober /\ "replay" \notin faults
         /\ ~HoldFails /\ ~ClaimDedupFails /\ ~CreateFails /\ ~CrashAlarmConsumer
  BY DEF Plain, Sober, HoldFails, ClaimDedupFails, CreateFails, CrashAlarmConsumer, Trouble

\* A row that is new is above all others and is of this age.
LEMMA NewRow ==
  ASSUME TypeInv, References, Ages, "replay" \notin faults, [Next]_vars,
         NEW a \in Alerts, ~Exists(a), Lasts(a)
  PROVE  Create /\ a \in Fresh /\ alert'[a].seen = age
<1>1. alert'[a] # alert[a]
  BY DEF Lasts, Exists
<1>2. RowsMove
  BY EveryRowsMove
<1>3. ASSUME NEW b \in Alerts, NEW to, Updated(b, to), Exists(b) PROVE FALSE
  BY <1>1, <1>3 DEF Updated
<1>4. Supersede => Exists(job.open)
  BY DEF Supersede, References, JobRefers
<1>5. Respond => Exists(desk.alert)
  BY DEF Respond, References, DeskRefers
<1>6. Create /\ \E b \in Fresh : Created(b, job.seen)
  BY <1>1, <1>2, <1>3, <1>4, <1>5 DEF RowsMove
<1>7. job.seen = age
  BY <1>6, CreateIsNow, Zenon DEF Create
<1>8. PICK b \in Fresh : Created(b, job.seen)
  BY <1>6
<1>9. b = a
  BY <1>1, <1>8 DEF Created
<1> QED
  BY <1>6, <1>7, <1>8, <1>9 DEF Created

LEMMA InOrderStep ==
  ASSUME TypeInv, References, Ages, Plain, InOrder, [Next]_vars
  PROVE  InOrder'
<1> SUFFICES ASSUME NEW a \in Alerts, NEW b \in Alerts, a < b, Lasts(b)
             PROVE  Lasts(a) /\ alert'[a].seen <= alert'[b].seen
  BY DEF InOrder, Exists, Lasts
<1>1. Exists(a) => Lasts(a) /\ alert'[a].seen = alert[a].seen
  BY RowsGrow DEF Grows
<1>2. CASE Exists(b)
  BY <1>1, <1>2, RowsGrow DEF InOrder, Grows
<1>3. CASE ~Exists(b)
  <2>1. b \in Fresh /\ alert'[b].seen = age
    BY <1>3, NewRow, PlainTimes
  <2>2. Exists(a)
    BY <2>1 DEF Fresh, Exists
  <2>3. alert[a].seen <= age
    BY DEF Ages
  <2> QED
    BY <1>1, <2>1, <2>2, <2>3
<1> QED
  BY <1>2, <1>3

\* An alarm of this age comes after those of other ages.
LEMMA CurrentSucceeds ==
  ASSUME TypeInv, Ages, InOrder, NEW a \in Alerts, Exists(a), alert[a].seen # age,
         NEW b \in Alerts, Current(b)
  PROVE  Successor(a)
<1>1. a \in Nat /\ b \in Nat /\ alert[a].seen \in Nat /\ alert[b].seen \in Nat
  BY AlertsAssumption DEF TypeInv, RowsOK, RowType
<1>2. Exists(b) /\ alert[b].seen = age /\ alert[a].seen <= age
  BY DEF Current, Ages
<1>3. ~(b < a)
  BY <1>1, <1>2 DEF InOrder
<1>4. b # a
  BY <1>2
<1>5. b > a
  BY ONLY <1>1, <1>3, <1>4
<1> QED
  BY <1>2, <1>5 DEF Successor

\* An audit row says that the consumer resolved an alarm if it did.
LEMMA AuditMoves ==
  ASSUME TypeInv, [Next]_vars, NEW a \in Alerts, Superseded(a)'
  PROVE  Superseded(a) \/ (Supersede /\ a = job.open)
<1>0. audit \in [Alerts -> AuditType]
  BY DEF TypeInv, RowsOK
<1>1. ASSUME UNCHANGED audit PROVE Superseded(a)
  BY <1>1 DEF Superseded
<1>2. CASE Supersede
  <2>1. audit' = [audit EXCEPT ![job.open] = [status |-> "RESOLVED", actor |-> "system"]]
    BY <1>2 DEF Supersede, updateStatus
  <2>2. a # job.open => audit'[a] = audit[a]
    BY <1>0, <2>1
  <2> QED
    BY <1>2, <2>2 DEF Superseded
<1>3. CASE Respond
  <2>1. audit' = [audit EXCEPT ![desk.alert] = [status |-> desk.to, actor |-> "operator"]]
    BY <1>3 DEF Respond, updateStatus
  <2>2. CASE a = desk.alert
    <3>1. audit'[a] = [status |-> desk.to, actor |-> "operator"]
      BY ONLY <1>0, <2>1, <2>2, a \in Alerts
    <3> QED
      BY <3>1 DEF Superseded
  <2>3. CASE a # desk.alert
    <3>1. audit'[a] = audit[a]
      BY <1>0, <2>1, <2>3
    <3> QED
      BY <3>1 DEF Superseded
  <2> QED
    BY <2>2, <2>3
<1>4. CASE Consumes /\ ~Supersede
  <2>1. UNCHANGED audit
    BY <1>4, Zenon DEF Consumes, Raise, ReceiveAlarm, FindOpen, Bump, ClaimDedup, Create,
       ClearDedup, HoldAccident, SetDeadline, CreateFails, ClaimDedupFails, HoldFails,
       CrashAlarmConsumer, rows
  <2> QED
    BY <1>1, <2>1
<1>5. CASE Decides \/ Passes \/ UNCHANGED vars
  <2>1. UNCHANGED audit
    BY <1>5, DecidesAlone, PassesAlone DEF rows, vars
  <2> QED
    BY <1>1, <2>1
<1>6. CASE Operates /\ ~Respond
  <2>1. UNCHANGED audit
    BY <1>6 DEF Operates, Request, rows
  <2> QED
    BY <1>1, <2>1
<1> QED
  BY <1>2, <1>3, <1>4, <1>5, <1>6, Actors

\* The message that supersedes goes on until its alarm is inserted, unless there is
\* one of its age.
LEMMA ReplacerMoves ==
  ASSUME TypeInv, Plain, [Next]_vars, job.pc \in {"claim", "create"}
  PROVE  /\ age' = age
         /\ job'.pc \in {"claim", "create"} \/ (dedup /\ job.pc = "claim") \/ Create
<1>0. job \in JobType /\ job # NoJob
  BY DEF TypeInv, JobOK, NoJob
<1>1. age' = age
  BY <1>0, AgeOrNext DEF NextAge
<1>2. ASSUME Goto("create") PROVE job'.pc = "create"
  BY <1>0, <1>2 DEF Goto, JobType
<1>3. CASE Consumes
  <2>1. /\ ~FindOpen
        /\ ~ReceiveAlarm
    BY <1>0, Zenon DEF FindOpen, ReceiveAlarm
  <2>2. ~(Supersede \/ Bump \/ ClearDedup \/ HoldAccident \/ SetDeadline)
    BY DEF Supersede, Bump, ClearDedup, HoldAccident, SetDeadline
  <2>3. ClaimDedup \/ Create
    BY <1>3, <2>1, <2>2, PlainTimes DEF Consumes, Raise
  <2>4. ClaimDedup => job.pc = "claim" /\ (dedup \/ Goto("create"))
    BY Zenon DEF ClaimDedup
  <2> QED
    BY <1>1, <1>2, <2>3, <2>4
<1>4. CASE ~Consumes
  <2>1. UNCHANGED job
    BY <1>4, DecidesAlone, OperatesAlone, PassesAlone, Actors DEF vars
  <2> QED
    BY <1>1, <2>1
<1> QED
  BY <1>3, <1>4

LEMMA ReplacedStep ==
  ASSUME TypeInv, References, Ages, Dedup, Plain, InOrder, Replaced, [Next]_vars
  PROVE  Replaced'
<1>0. InOrder'
  BY InOrderStep
<1>1. ASSUME job'.pc = "supersede" PROVE alert'[job'.open].seen # age'
  <2>1. CASE UNCHANGED job /\ ~Consumes /\ ~NextAge
    <3>1. job.open \in Alerts /\ Exists(job.open) /\ alert[job.open].seen # age
      BY <1>1, <2>1 DEF TypeInv, JobOK, References, JobRefers, Replaced
    <3>2. age' = age /\ alert'[job.open].seen = alert[job.open].seen
      BY <2>1, <3>1, AgeOrNext, RowsGrow DEF Grows
    <3> QED
      BY <2>1, <3>1, <3>2
  <2>2. CASE /\ FindOpen /\ UNCHANGED alert /\ job # NoJob /\ job'.seen = job.seen
             /\ \E a \in Opened : /\ job'.open = a /\ job'.version = alert[a].version
                                  /\ alert[a].seen # job.seen
    <3>1. age' = age /\ job.seen = age
      BY <2>2, PlainTimes, AgeOrNext DEF NextAge, Ages
    <3> QED
      BY ONLY <2>2, <3>1
  <2> QED
    BY <1>1, <2>1, <2>2, SupersedeMoves
<1>2. ASSUME NEW a \in Alerts, Superseded(a)'
      PROVE  /\ Exists(a)' /\ alert'[a].seen = alert[a].seen
             /\ Successor(a)' \/ (job'.pc \in {"claim", "create"} /\ alert'[a].seen # age')
  <2>1. ASSUME Exists(a) PROVE Exists(a)' /\ alert'[a].seen = alert[a].seen
    BY <2>1, RowsGrow DEF Grows, Lasts, Exists
  <2>2. ASSUME Successor(a) PROVE Successor(a)'
    BY <2>2, RowsGrow DEF Successor, Grows, Lasts, Exists
  <2>3. CASE Supersede /\ a = job.open
    <3>1. job.pc = "supersede" /\ Exists(a) /\ alert[a].seen # age
      BY <2>3 DEF Supersede, References, JobRefers, Replaced
    <3>2. age' = age /\ job'.pc = "claim"
      BY <2>3 DEF Supersede, clock, Goto, TypeInv, JobOK, JobType
    <3> QED
      BY <2>1, <3>1, <3>2
  <2>4. CASE Superseded(a) /\ Successor(a)
    BY <2>1, <2>2, <2>4 DEF Replaced
  <2>5. CASE Superseded(a) /\ job.pc \in {"claim", "create"} /\ alert[a].seen # age
    <3>1. Exists(a)
      BY <2>5 DEF Replaced
    <3>2. age' = age
      BY <2>5, ReplacerMoves
    <3>3. CASE dedup /\ job.pc = "claim"
      <4>1. \E b \in Alerts : Current(b)
        BY <3>3, PlainTimes DEF Dedup
      <4> QED
        BY <2>1, <2>2, <2>5, <3>1, <4>1, CurrentSucceeds
    <3>4. CASE Create
      <4>1. PICK b \in Fresh : b \in Alerts /\ Created(b, job.seen)
        BY <3>4, CreatedRow
      <4>2. Exists(b)' /\ ~Exists(b)
        BY <4>1 DEF Created, Exists, Fresh
      <4>3. ~(b < a) /\ b # a
        BY <3>1, <4>1, <4>2 DEF InOrder
      <4>4. b > a
        BY <4>1, <4>3, AlertsAssumption
      <4> QED
        BY <2>1, <3>1, <4>1, <4>2, <4>4 DEF Successor
    <3> QED
      BY <2>1, <2>5, <3>1, <3>2, <3>3, <3>4, ReplacerMoves
  <2> QED
    BY <1>2, <2>3, <2>4, <2>5, AuditMoves DEF Replaced
<1> QED
  BY <1>1, <1>2 DEF Replaced

LEMMA OrderStep == TypeInv /\ References /\ Ages /\ Dedup /\ Order /\ [Next]_vars => Order'
<1> SUFFICES ASSUME TypeInv, References, Ages, Dedup, Order, [Next]_vars, Plain'
             PROVE  InOrder' /\ Replaced'
  BY DEF Order
<1>1. Plain
  BY FaultsStay DEF Plain
<1>2. InOrder /\ Replaced
  BY <1>1 DEF Order
<1> QED
  BY <1>1, <1>2, InOrderStep, ReplacedStep

-----------------------------------------------------------------------------
(* The life of an alarm *)

\* The states the lifecycle sees.
Shown == [a \in Alerts |-> alert[a].status]
ShownNext == [a \in Alerts |-> alert'[a].status]

LEMMA ShownMoves ==
  ASSUME TypeInv, References, [Next]_vars
  PROVE  \/ ShownNext = Shown
         \/ /\ UNCHANGED notified
            /\ \E a \in Alerts, s \in {"OPEN", "ACKNOWLEDGED", "RESOLVED"} :
                 /\ <<Shown[a], s>> \in Lifecycle!Later
                 /\ ShownNext = [Shown EXCEPT ![a] = s]
<1>0. \A a \in Alerts : alert[a].status \in Statuses
  BY DEF TypeInv, RowsOK, RowType
<1>1. ASSUME UNCHANGED alert PROVE ShownNext = Shown
  BY <1>1 DEF Shown, ShownNext
<1>2. ASSUME NEW a \in Alerts, NEW to, alert'[a].status = to,
             \A b \in Alerts \ {a} : alert'[b] = alert[b]
      PROVE  ShownNext = [Shown EXCEPT ![a] = to]
  BY <1>2 DEF Shown, ShownNext
<1>3. ASSUME NEW a \in Alerts, Updated(a, alert[a].status) PROVE ShownNext = Shown
  BY <1>3 DEF Updated, Shown, ShownNext
<1>4. CASE Supersede /\ job.open \in Alerts /\ Updated(job.open, "RESOLVED")
  <2>1. UNCHANGED notified /\ Exists(job.open)
    BY <1>4 DEF Supersede, told, References, JobRefers
  <2>2. CASE alert[job.open].status = "RESOLVED"
    BY <1>3, <1>4, <2>2
  <2>3. CASE alert[job.open].status # "RESOLVED"
    <3>1. <<Shown[job.open], "RESOLVED">> \in Lifecycle!Later
      BY <1>0, <1>4, <2>1, <2>3 DEF Statuses, Exists, Shown, Lifecycle!Later
    <3>2. ShownNext = [Shown EXCEPT ![job.open] = "RESOLVED"]
      BY <1>2, <1>4 DEF Updated
    <3> QED
      BY ONLY <1>4, <2>1, <3>1, <3>2
  <2> QED
    BY <2>2, <2>3
<1>5. CASE /\ Respond /\ desk.alert \in Alerts /\ desk.to \in {"ACKNOWLEDGED", "RESOLVED"}
           /\ Updated(desk.alert, desk.to) /\ alert[desk.alert].version = desk.version
  <2>1. UNCHANGED notified /\ Legal(alert[desk.alert].status, desk.to)
    BY <1>5 DEF Respond, told, References, DeskRefers
  <2>2. <<Shown[desk.alert], desk.to>> \in Lifecycle!Later
    BY <1>5, <2>1 DEF Legal, Shown, Lifecycle!Later
  <2>3. ShownNext = [Shown EXCEPT ![desk.alert] = desk.to]
    BY <1>2, <1>5 DEF Updated
  <2>4. desk.to \in {"OPEN", "ACKNOWLEDGED", "RESOLVED"} /\ desk.alert \in Alerts
    BY <1>5
  <2> QED
    BY ONLY <2>1, <2>2, <2>3, <2>4
<1>6. CASE Create /\ \E a \in Fresh : Created(a, job.seen)
  <2>1. PICK a \in Fresh : Created(a, job.seen)
    BY <1>6
  <2>2. a \in Alerts /\ Shown[a] = "NONE"
    BY DEF Fresh, Shown
  <2>3. ShownNext = [Shown EXCEPT ![a] = "OPEN"]
    <3>1. alert'[a].status = "OPEN" /\ \A b \in Alerts \ {a} : alert'[b] = alert[b]
      BY <2>1 DEF Created
    <3> QED
      BY <1>2, <2>2, <3>1
  <2>4. UNCHANGED notified
    BY <1>6, Zenon DEF Create, told
  <2>5. <<Shown[a], "OPEN">> \in Lifecycle!Later
    BY <2>2 DEF Lifecycle!Later
  <2> QED
    BY <2>2, <2>3, <2>4, <2>5
<1> QED
  BY <1>1, <1>3, <1>4, <1>5, <1>6, EveryRowsMove DEF RowsMove

\* An alarm that is told has been inserted, and in careful times was not told before.
LEMMA NotifiedMoves ==
  ASSUME TypeInv, References, Calm, Token, [Next]_vars
  PROVE  \/ UNCHANGED notified
         \/ /\ UNCHANGED alert
            /\ \E a \in Alerts : /\ Shown[a] # "NONE"
                                 /\ Careful => notified[a] = 0
                                 /\ notified' = [notified EXCEPT ![a] = @ + 1]
<1>1. CASE HoldFails
  <2>1. job.id \in Alerts /\ Exists(job.id)
    BY <1>1 DEF HoldFails, TypeInv, JobOK, References, JobRefers
  <2>2. UNCHANGED alert /\ notified' = [notified EXCEPT ![job.id] = @ + 1]
    BY <1>1 DEF HoldFails, rows
  <2>3. ~Careful
    BY <1>1, CarefulTimes
  <2> QED
    BY <2>1, <2>2, <2>3 DEF Exists, Shown
<1>2. ASSUME NEW d \in Deciders, Notify(d)
      PROVE  /\ UNCHANGED alert
             /\ \E a \in Alerts : /\ Shown[a] # "NONE"
                                  /\ Careful => notified[a] = 0
                                  /\ notified' = [notified EXCEPT ![a] = @ + 1]
  <2> DEFINE a == claim[d].alert
  <2>1. Winner(d) /\ a \in Alerts
    BY <1>2, TellersWin
  <2>2. Exists(a)
    BY <2>1, NamesAssumption DEF References, ClaimsRefer, ClaimRefers
  <2>3. ASSUME Careful PROVE notified[a] = 0
    <3>1. HoldsAreCurrent /\ OneDecides
      BY <2>3, CarefulTimes DEF Calm, Token
    <3>2. Current(a)
      BY <2>1, <3>1, NamesAssumption DEF HoldsAreCurrent
    <3> QED
      BY <2>1, <3>1, <3>2 DEF OneDecides, Undecided
  <2>4. UNCHANGED alert /\ notified' = [notified EXCEPT ![a] = @ + 1]
    BY <1>2 DEF Notify, rows
  <2>5. Shown[a] # "NONE"
    BY <2>1, <2>2 DEF Shown, Exists
  <2> HIDE DEF a
  <2> QED
    BY <2>1, <2>3, <2>4, <2>5
<1>3. CASE Consumes /\ ~HoldFails
  BY <1>3, Zenon DEF Consumes, Raise, ReceiveAlarm, FindOpen, Supersede, Bump, ClaimDedup,
     Create, ClearDedup, HoldAccident, SetDeadline, CreateFails, ClaimDedupFails,
     CrashAlarmConsumer, told
<1>4. CASE Decides /\ \A d \in Deciders : ~Notify(d)
  BY <1>4, Zenon DEF Decides, Decide, ReadHold, SweepDue, GetHold, DelHold, ZremHold, FindHeld,
     Confirm, ClaimFails, CrashDecider, told
<1>5. CASE Operates \/ Passes \/ UNCHANGED vars
  BY <1>5, OperatesAlone, PassesAlone DEF vars, told
<1> QED
  BY <1>1, <1>2, <1>3, <1>4, <1>5, Actors

-----------------------------------------------------------------------------
(* No alarm is forgotten *)

Reliable == faults \subseteq {"db"}

\* Nothing is left of the hold of an earlier age when an alarm is raised.
QuietBefore == job.pc = "hold" \/ (\A a \in Alerts : ~Current(a)) => Quiet

\* While an alarm is held its deadline is set or about to be, and whoever is after
\* the hold has read this one.
After(c, d) ==
    /\ c.pc \in {"idle", "get", "del"}
    /\ c.pc = "del" => c.raw = hold
    /\ d = Positions /\ c.pc # "idle" => c.alert = hold
HoldIsPursued ==
    hold # None => /\ due # None \/ job.pc = "due"
                   /\ \A d \in Deciders : After(claim[d], d)

\* Who has deleted the key finishes the alarm that the key held.
FinishesItsClaim ==
    \A d \in Deciders : At(d, "zrem") /\ claim[d].raw # None => Finishes(d) = claim[d].raw

HasIt(d, a) == \/ At(d, "zrem") /\ claim[d].raw # None /\ Finishes(d) = a
               \/ claim[d].pc \in {"find", "detail", "notify"} /\ claim[d].alert = a
UnderWay(a) ==
    \/ Told(a)
    \/ job.pc = "hold" /\ job.id = a
    \/ hold = a /\ (due # None \/ job.pc = "due")
    \/ \E d \in Deciders : HasIt(d, a)
AllUnderWay == \A a \in Alerts : Exists(a) => UnderWay(a)

Pursuit == Reliable => QuietBefore /\ HoldIsPursued /\ FinishesItsClaim /\ AllUnderWay

LEMMA PursuitInit == Init => Pursuit
<1> SUFFICES ASSUME Init PROVE QuietBefore /\ HoldIsPursued /\ FinishesItsClaim /\ AllUnderWay
  BY DEF Pursuit
<1>1. \A d \in Deciders : claim[d].pc = "idle"
  BY DEF Init, NoClaim
<1>2. Quiet
  BY <1>1 DEF Init, Quiet, At
<1>3. \A a \in Alerts : ~Exists(a)
  BY DEF Init, Exists, NoRow
<1> QED
  BY <1>1, <1>2, <1>3 DEF Init, QuietBefore, HoldIsPursued, FinishesItsClaim, AllUnderWay, At

\* What failing INSERTs alone leave out.
LEMMA ReliableTimes ==
  ASSUME Reliable
  PROVE  /\ Careful /\ Steady /\ "stall" \notin faults /\ "replay" \notin faults
         /\ ~HoldFails /\ ~ClaimDedupFails /\ ~CrashAlarmConsumer
         /\ \A d \in Deciders : ~ClaimFails(d) /\ ~CrashDecider(d)
  BY DEF Reliable, Careful, Steady, HoldFails, ClaimDedupFails, CrashAlarmConsumer, ClaimFails,
     CrashDecider, Trouble

LEMMA DeciderActs ==
  ASSUME TypeInv, Reliable, [Next]_vars, NEW e \in Deciders
  PROVE  \/ claim'[e] = claim[e]
         \/ e = Positions /\ ReadHold
         \/ e \in Sweepers /\ SweepDue(e)
         \/ Decide(e)
<1>0. claim \in [Deciders -> ClaimType] /\ Positions \in Deciders /\ Sweepers \subseteq Deciders
  BY DEF TypeInv, ClaimsOK, Deciders
<1>1. CASE ~Decides
  BY <1>1, ConsumesAlone, OperatesAlone, PassesAlone, Actors DEF vars
<1>2. ASSUME NEW d \in Deciders, d # e, Decide(d) PROVE claim'[e] = claim[e]
  <2>1. GetHold(d) \/ DelHold(d) => claim'[e] = claim[e]
    BY <1>0, <1>2 DEF GetHold, DelHold
  <2>2. ZremHold(d) \/ FindHeld(d) => claim'[e] = claim[e]
    BY <1>0, <1>2 DEF ZremHold, FindHeld
  <2>3. Confirm(d) \/ Notify(d) => claim'[e] = claim[e]
    BY <1>0, <1>2 DEF Confirm, Notify, To
  <2> QED
    BY <1>2, <2>1, <2>2, <2>3 DEF Decide
<1>3. ReadHold /\ e # Positions => claim'[e] = claim[e]
  BY <1>0 DEF ReadHold
<1>4. ASSUME NEW s \in Sweepers, SweepDue(s), s # e PROVE claim'[e] = claim[e]
  BY <1>0, <1>4 DEF SweepDue
<1> QED
  BY <1>1, <1>2, <1>3, <1>4, ReliableTimes DEF Decides

\* The step of a decider, by what it did before.
LEMMA ReadsHold ==
  ASSUME TypeInv, ReadHold
  PROVE  claim'[Positions].pc = "get" /\ claim'[Positions].alert = hold /\ UNCHANGED <<keys, told>>
<1>1. claim \in [Deciders -> ClaimType] /\ Positions \in Deciders
  BY DEF TypeInv, ClaimsOK, Deciders
<1>2. PICK verdict : claim' = [claim EXCEPT ![Positions] =
                   [NoClaim EXCEPT !.pc = "get", !.alert = hold, !.verdict = verdict]]
  BY DEF ReadHold
<1> QED
  BY <1>1, <1>2 DEF ReadHold, NoClaim

LEMMA SweepsDue ==
  ASSUME TypeInv, NEW s \in Sweepers, SweepDue(s)
  PROVE  claim'[s].pc = "get" /\ UNCHANGED <<keys, told>>
  BY DEF SweepDue, NoClaim, TypeInv, ClaimsOK, Deciders

LEMMA GetsHold ==
  ASSUME TypeInv, NEW d \in Deciders, GetHold(d)
  PROVE  /\ claim[d].pc = "get" /\ claim'[d].pc = "del" /\ claim'[d].raw = hold
         /\ claim'[d].alert = claim[d].alert /\ UNCHANGED <<keys, told>>
  BY DEF GetHold, At, TypeInv, ClaimsOK, ClaimType

LEMMA DeletesHold ==
  ASSUME TypeInv, NEW d \in Deciders, DelHold(d)
  PROVE  /\ claim[d].pc = "del" /\ claim'[d].pc = "zrem" /\ hold' = None
         /\ claim'[d].raw = (IF hold = None THEN None ELSE claim[d].raw)
         /\ claim'[d].alert = claim[d].alert /\ UNCHANGED <<due, told>>
  BY DEF DelHold, At, TypeInv, ClaimsOK, ClaimType

LEMMA RemovesDeadline ==
  ASSUME TypeInv, NEW d \in Deciders, ZremHold(d)
  PROVE  /\ claim[d].pc = "zrem" /\ UNCHANGED <<hold, told>>
         /\ \/ claim[d].raw = None /\ claim'[d].pc = "idle"
            \/ claim[d].raw # None /\ claim'[d].pc = "find" /\ claim'[d].alert = Finishes(d)
<1>1. claim \in [Deciders -> ClaimType] /\ claim[d] \in ClaimType
  BY DEF TypeInv, ClaimsOK
<1>2. claim[d].pc = "zrem" /\ UNCHANGED <<hold, told>>
  BY DEF ZremHold, At
<1>3. claim[d].raw = None => claim'[d].pc = "idle"
  BY <1>1 DEF ZremHold, NoClaim
<1>4. claim[d].raw # None => claim'[d].pc = "find" /\ claim'[d].alert = Finishes(d)
  <2> DEFINE a == Finishes(d)
  <2>1. claim[d].raw # None => claim' = [claim EXCEPT ![d].pc = "find", ![d].alert = a]
    BY DEF ZremHold
  <2> HIDE DEF a
  <2>2. claim[d].raw # None => claim'[d].pc = "find" /\ claim'[d].alert = a
    BY <1>1, <2>1 DEF ClaimType
  <2> QED
    BY <2>2 DEF a
<1> QED
  BY <1>2, <1>3, <1>4

IsTold(a) == notified'[a] > 0 \/ a \in cancelled'

LEMMA FinishesHold ==
  ASSUME TypeInv, NEW d \in Deciders, FindHeld(d) \/ Confirm(d) \/ Notify(d)
  PROVE  /\ claim[d].pc \in {"find", "detail", "notify"} /\ UNCHANGED keys
         /\ claim[d].alert \in Alerts
         /\ \/ claim'[d].pc \in {"detail", "notify"} /\ claim'[d].alert = claim[d].alert
            \/ claim'[d].pc = "idle" /\ IsTold(claim[d].alert)
<1>1. claim \in [Deciders -> ClaimType] /\ claim[d] \in ClaimType
      /\ notified \in [Alerts -> Nat]
  BY DEF TypeInv, ClaimsOK, ToldOK
<1>2. claim[d].pc \in {"find", "detail", "notify"} /\ UNCHANGED keys
  BY DEF FindHeld, Confirm, Notify, At
<1>3. claim[d].alert \in Alerts
  BY <1>2 DEF TypeInv, ClaimsOK, ClaimBound
<1>4. FindHeld(d) => claim'[d].pc = "detail" /\ claim'[d].alert = claim[d].alert
  BY <1>1 DEF FindHeld, ClaimType
<1>5. ASSUME Notify(d) PROVE claim'[d].pc = "idle" /\ IsTold(claim[d].alert)
  <2>1. notified'[claim[d].alert] = notified[claim[d].alert] + 1 /\ claim'[d] = NoClaim
    BY <1>1, <1>3, <1>5 DEF Notify
  <2>2. notified[claim[d].alert] \in Nat
    BY <1>1, <1>3
  <2>3. notified'[claim[d].alert] > 0
    BY <2>1, <2>2
  <2> QED
    BY <2>1, <2>3, <1>5 DEF IsTold, NoClaim, Notify
<1>6. ASSUME Confirm(d)
      PROVE  \/ claim'[d].pc = "notify" /\ claim'[d].alert = claim[d].alert
             \/ claim'[d].pc = "idle" /\ IsTold(claim[d].alert)
  <2>1. CASE claim[d].verdict = "drove_on"
    <3>1. claim'[d] = NoClaim /\ claim[d].alert \in cancelled'
      BY <1>1, <1>6, <2>1 DEF Confirm
    <3> QED
      BY <3>1 DEF IsTold, NoClaim
  <2>2. CASE claim[d].verdict # "drove_on"
    BY <1>1, <1>6, <2>2 DEF Confirm, To, ClaimType
  <2> QED
    BY <2>1, <2>2
<1> QED
  BY <1>2, <1>3, <1>4, <1>5, <1>6

LEMMA KeysMove ==
  ASSUME TypeInv, Reliable, [Next]_vars
  PROVE  /\ due' # None \/ due' = due \/ \E d \in Deciders : ZremHold(d)
         /\ job.pc = "due" => UNCHANGED job \/ SetDeadline
<1>1. due' # None \/ due' = due \/ \E d \in Deciders : ZremHold(d)
  <2>1. Consumes => due' # None \/ due' = due
    BY NamesAssumption DEF Consumes, Raise, ReceiveAlarm, FindOpen, Supersede, Bump, ClaimDedup,
       Create, ClearDedup, HoldAccident, SetDeadline, CreateFails, ClaimDedupFails, HoldFails,
       CrashAlarmConsumer, keys
  <2>2. Decides => due' = due \/ \E d \in Deciders : ZremHold(d)
    BY DEF Decides, Decide, ReadHold, SweepDue, GetHold, DelHold, FindHeld, Confirm,
       Notify, ClaimFails, CrashDecider, keys
  <2>3. Operates \/ Passes \/ UNCHANGED vars => due' # None \/ due' = due
    BY OperatesAlone, NamesAssumption DEF Passes, ExpireDedup, PassDeadline, NextAge, vars, keys
  <2> QED
    BY <2>1, <2>2, <2>3, Actors
<1>2. ASSUME job.pc = "due" PROVE UNCHANGED job \/ SetDeadline
  <2>0. job # NoJob
    BY <1>2 DEF NoJob
  <2>1. Consumes => SetDeadline
    <3>1. ~FindOpen
      BY <1>2, Zenon DEF FindOpen
    <3>2. ~Create
      BY <1>2, Zenon DEF Create
    <3>3. ~ReceiveAlarm /\ ~Supersede /\ ~Bump /\ ~ClaimDedup
      BY <1>2, <2>0 DEF ReceiveAlarm, Supersede, Bump, ClaimDedup
    <3>4. ~ClearDedup /\ ~HoldAccident /\ ~CreateFails
      BY <1>2 DEF ClearDedup, HoldAccident, CreateFails
    <3> QED
      BY <3>1, <3>2, <3>3, <3>4, ReliableTimes DEF Consumes, Raise
  <2>2. Decides \/ Operates \/ Passes \/ UNCHANGED vars => UNCHANGED job
    BY DecidesAlone, OperatesAlone, PassesAlone DEF vars
  <2> QED
    BY <2>1, <2>2, Actors
<1> QED
  BY <1>1, <1>2

\* Only the consumer disturbs the quiet.
LEMMA QuietStays ==
  ASSUME TypeInv, Reliable, Quiet, [Next]_vars
  PROVE  Quiet' \/ HoldAccident \/ SetDeadline
<1>0. hold = None /\ due = None /\ \A d \in Deciders : claim[d].pc = "idle"
  BY DEF Quiet, At
<1>1. CASE Consumes
  <2>1. HoldAccident \/ SetDeadline \/ UNCHANGED <<hold, due, claim>>
    BY <1>1 DEF Consumes, Raise, ReceiveAlarm, FindOpen, Supersede, Bump, ClaimDedup,
       Create, ClearDedup, CreateFails, ClaimDedupFails, HoldFails, CrashAlarmConsumer, keys
  <2> QED
    BY <1>0, <2>1 DEF Quiet, At
<1>2. ~Decides
  <2>1. ~ReadHold /\ \A s \in Sweepers : ~SweepDue(s)
    BY <1>0, NamesAssumption DEF ReadHold, SweepDue
  <2>2. ASSUME NEW d \in Deciders, Decide(d) PROVE FALSE
    BY <1>0, <2>2 DEF Decide, GetHold, DelHold, ZremHold, FindHeld, Confirm, Notify, At
  <2> QED
    BY <2>1, <2>2, ReliableTimes DEF Decides
<1>3. CASE Operates \/ Passes \/ UNCHANGED vars
  <2>1. ~PassDeadline
    BY <1>0, NamesAssumption DEF PassDeadline
  <2>2. UNCHANGED <<hold, due, claim>>
    BY <1>3, <2>1, OperatesAlone DEF Passes, ExpireDedup, NextAge, vars, keys
  <2> QED
    BY <1>0, <2>2 DEF Quiet, At
<1> QED
  BY <1>1, <1>2, <1>3, Actors

LEMMA QuietBeforeStep ==
  ASSUME TypeInv, References, Ages, Reliable, HoldsAreCurrent, OneIsOpen, CurrentIsOpen,
         QuietBefore, [Next]_vars
  PROVE  QuietBefore'
<1>1. ASSUME job'.pc = "hold" PROVE Quiet /\ ~HoldAccident /\ ~SetDeadline
  <2>0. job \in JobType
    BY DEF TypeInv, JobOK
  <2>1. Quiet
    <3>1. CASE UNCHANGED job
      BY <1>1, <3>1 DEF QuietBefore
    <3>2. CASE Create
      <4>1. job.pc = "create"
        BY <3>2, Zenon DEF Create
      <4> QED
        BY <4>1, NoneCurrent DEF QuietBefore
    <3> QED
      BY <1>1, <3>1, <3>2, IdMoves
  <2>2. ~HoldAccident
    BY <1>1, <2>0 DEF HoldAccident, Goto, JobType
  <2>3. ~SetDeadline
    BY <1>1 DEF SetDeadline, NoJob
  <2> QED
    BY <2>1, <2>2, <2>3
<1>2. ASSUME \A a \in Alerts : ~Current(a)' PROVE Quiet /\ ~HoldAccident /\ ~SetDeadline
  <2>1. CASE NextAge
    <3>1. Quiet /\ job = NoJob
      BY <2>1, ReliableTimes DEF NextAge
    <3> QED
      BY <3>1 DEF HoldAccident, SetDeadline, NoJob
  <2>2. CASE age' = age
    <3>1. ASSUME NEW a \in Alerts, Current(a) PROVE FALSE
      <4>1. StaysCurrent(a)
        BY <2>2, <3>1, CurrentStays
      <4> QED
        BY <1>2, <4>1 DEF StaysCurrent, Current, Exists, Lasts
    <3>2. job.pc \notin {"hold", "due"}
      BY <3>1 DEF HoldsAreCurrent, TypeInv, JobOK
    <3>3. Quiet
      BY <3>1 DEF QuietBefore
    <3> QED
      BY <3>2, <3>3 DEF HoldAccident, SetDeadline
  <2> QED
    BY <2>1, <2>2, AgeOrNext
<1>3. QuietBefore' = (job'.pc = "hold" \/ (\A a \in Alerts : ~Current(a)') => Quiet')
  BY DEF QuietBefore
<1> QED
  BY <1>1, <1>2, <1>3, QuietStays

LEMMA HoldIsPursuedStep ==
  ASSUME TypeInv, Reliable, QuietBefore, HoldIsPursued, [Next]_vars
  PROVE  HoldIsPursued'
<1> SUFFICES ASSUME hold' # None
             PROVE  /\ due' # None \/ job'.pc = "due"
                    /\ \A d \in Deciders : After(claim[d], d)'
  BY DEF HoldIsPursued
<1>1. CASE HoldAccident
  <2>1. job'.pc = "due" /\ UNCHANGED claim
    BY <1>1 DEF HoldAccident, Goto, TypeInv, JobOK, JobType
  <2>2. \A d \in Deciders : claim'[d].pc = "idle"
    BY <1>1, <2>1 DEF HoldAccident, QuietBefore, Quiet, At
  <2> QED
    BY <2>1, <2>2 DEF After
<1>2. CASE hold' = hold
  <2>1. /\ due # None \/ job.pc = "due"
        /\ \A d \in Deciders : After(claim[d], d)
    BY <1>2 DEF HoldIsPursued
  <2>2. due' # None \/ job'.pc = "due"
    <3>1. \A d \in Deciders : ~ZremHold(d)
      BY <2>1 DEF After, ZremHold, At
    <3>2. SetDeadline => due' # None
      BY NamesAssumption DEF SetDeadline
    <3> QED
      BY <2>1, <3>1, <3>2, KeysMove
  <2>3. ASSUME NEW d \in Deciders PROVE After(claim[d], d)'
    <3>0. After(claim[d], d)
      BY <2>1
    <3>1. CASE claim'[d] = claim[d]
      BY <1>2, <3>0, <3>1 DEF After
    <3>2. CASE d = Positions /\ ReadHold
      BY <1>2, <3>2, ReadsHold DEF After
    <3>3. CASE d \in Sweepers /\ SweepDue(d)
      BY <3>3, SweepsDue, NamesAssumption DEF After
    <3>4. CASE GetHold(d)
      BY <1>2, <3>0, <3>4, GetsHold DEF After
    <3>5. CASE DelHold(d)
      BY <3>5, DeletesHold
    <3>6. CASE ZremHold(d) \/ FindHeld(d) \/ Confirm(d) \/ Notify(d)
      BY <3>0, <3>6 DEF After, ZremHold, FindHeld, Confirm, Notify, At
    <3> QED
      BY <3>1, <3>2, <3>3, <3>4, <3>5, <3>6, DeciderActs DEF Decide
  <2> QED
    BY <2>2, <2>3
<1> QED
  BY <1>1, <1>2, HoldMoves

\* Who deletes the key of a hold gets what was held.
LEMMA Captures ==
  ASSUME TypeInv, HoldIsPursued, NEW d \in Deciders, DelHold(d), hold # None
  PROVE  claim'[d].pc = "zrem" /\ claim'[d].raw = hold /\ Finishes(d)' = hold
<1>1. After(claim[d], d) /\ claim[d].pc = "del" /\ d \in Sweepers \cup {Positions}
  BY DeletesHold DEF HoldIsPursued, Deciders
<1>2. claim'[d].pc = "zrem" /\ claim'[d].raw = hold /\ claim'[d].alert = claim[d].alert
  BY <1>1, DeletesHold DEF After
<1>3. d = Positions => claim[d].alert = hold
  BY <1>1 DEF After
<1> QED
  BY <1>1, <1>2, <1>3, NamesAssumption DEF Finishes

LEMMA FinishesItsClaimStep ==
  ASSUME TypeInv, Reliable, HoldIsPursued, FinishesItsClaim, [Next]_vars
  PROVE  FinishesItsClaim'
<1> SUFFICES ASSUME NEW d \in Deciders, claim'[d].pc = "zrem", claim'[d].raw # None
             PROVE  Finishes(d)' = claim'[d].raw
  BY DEF FinishesItsClaim, At
<1>1. CASE claim'[d] = claim[d]
  BY <1>1 DEF FinishesItsClaim, At, Finishes
<1>2. CASE DelHold(d)
  <2>1. hold # None
    BY <1>2, DeletesHold
  <2> QED
    BY <1>2, <2>1, Captures
<1>3. CASE (d = Positions /\ ReadHold) \/ (d \in Sweepers /\ SweepDue(d))
  BY <1>3, ReadsHold, SweepsDue
<1>4. CASE GetHold(d) \/ ZremHold(d)
  BY <1>4, GetsHold, RemovesDeadline
<1>5. CASE FindHeld(d) \/ Confirm(d) \/ Notify(d)
  BY <1>5, FinishesHold
<1> QED
  BY <1>1, <1>2, <1>3, <1>4, <1>5, DeciderActs DEF Decide

\* What was told or cancelled stays so.
LEMMA ToldStays ==
  ASSUME TypeInv, Reliable, [Next]_vars, NEW a \in Alerts, Told(a)
  PROVE  Told(a)'
<1>1. UNCHANGED told => Told(a)'
  BY DEF Told, told
<1>2. ASSUME NEW d \in Deciders, Confirm(d) PROVE Told(a)'
  <2>1. notified' = notified /\ cancelled \subseteq cancelled'
    BY <1>2 DEF Confirm
  <2> QED
    BY <2>1 DEF Told
<1>3. ASSUME NEW d \in Deciders, Notify(d) PROVE Told(a)'
  <2>1. /\ notified' = [notified EXCEPT ![claim[d].alert] = @ + 1]
        /\ cancelled' = cancelled /\ notified \in [Alerts -> Nat]
    BY <1>3 DEF Notify, TypeInv, ToldOK
  <2>2. notified[a] \in Nat /\ notified'[a] \in {notified[a], notified[a] + 1}
    BY <2>1
  <2> QED
    BY <2>1, <2>2 DEF Told
<1> QED
  BY <1>1, <1>2, <1>3, ReliableTimes, ToldMoves

\* An alarm that is raised is about to be held.
LEMMA RaisedIsHeldNext ==
  ASSUME TypeInv, References, Ages, Reliable, [Next]_vars,
         NEW a \in Alerts, ~Exists(a), Lasts(a)
  PROVE  job'.pc = "hold" /\ job'.id = a
<1>1. Create /\ job.pc = "create"
  BY NewRow, ReliableTimes, Zenon DEF Create
<1>2. PICK b \in Fresh :
        /\ create(b, job.seen)
        /\ job' = IF job.seen = age THEN [job EXCEPT !.pc = "hold", !.id = b] ELSE NoJob
  BY <1>1 DEF Create
<1>3. b = a
  BY <1>2 DEF create, Exists, Lasts, TypeInv, RowsOK
<1>4. job.seen = age
  BY <1>1, CreateIsNow, ReliableTimes
<1> QED
  BY <1>2, <1>3, <1>4 DEF TypeInv, JobOK, JobType

\* The consumer at "hold" goes on to hold the alarm.
LEMMA HoldsNext ==
  ASSUME TypeInv, Reliable, [Next]_vars, job.pc = "hold"
  PROVE  UNCHANGED job \/ (job'.pc = "due" /\ hold' = job.id)
<1>0. job # NoJob /\ job \in JobType
  BY DEF NoJob, TypeInv, JobOK
<1>1. Consumes => HoldAccident
  <2>1. ~FindOpen
    BY Zenon DEF FindOpen
  <2>2. ~Create
    BY Zenon DEF Create
  <2>3. ~ReceiveAlarm /\ ~Supersede /\ ~Bump /\ ~ClaimDedup
    BY <1>0 DEF ReceiveAlarm, Supersede, Bump, ClaimDedup
  <2>4. ~ClearDedup /\ ~SetDeadline /\ ~CreateFails
    BY DEF ClearDedup, SetDeadline, CreateFails
  <2> QED
    BY <2>1, <2>2, <2>3, <2>4, ReliableTimes DEF Consumes, Raise
<1>2. Decides \/ Operates \/ Passes \/ UNCHANGED vars => UNCHANGED job
  BY DecidesAlone, OperatesAlone, PassesAlone DEF vars
<1>3. HoldAccident => job'.pc = "due" /\ hold' = job.id
  BY <1>0 DEF HoldAccident, Goto, JobType
<1> QED
  BY <1>1, <1>2, <1>3, Actors

\* A hold stays until a decider has it.
LEMMA HoldStaysUnderWay ==
  ASSUME TypeInv, Reliable, QuietBefore, HoldIsPursued, [Next]_vars,
         NEW a \in Alerts, hold = a
  PROVE  UnderWay(a)'
<1>0. hold # None
  BY NamesAssumption
<1>1. CASE hold' = hold
  <2>1. hold' # None /\ HoldIsPursued'
    BY <1>0, <1>1, HoldIsPursuedStep
  <2> QED
    BY <1>1, <2>1 DEF HoldIsPursued, UnderWay
<1>2. CASE hold' # hold
  <2>1. ~HoldAccident
    BY <1>0 DEF HoldAccident, QuietBefore, Quiet
  <2>2. hold' = None
    BY <1>2, <2>1, HoldMoves
  <2>3. \E d \in Deciders : DelHold(d)
    <3>1. Consumes \/ Operates \/ Passes \/ UNCHANGED vars => UNCHANGED hold
      BY <2>1, OperatesAlone, PassesAlone DEF Consumes, Raise, ReceiveAlarm, FindOpen, Supersede,
         Bump, ClaimDedup, Create, ClearDedup, SetDeadline, CreateFails, ClaimDedupFails,
         HoldFails, CrashAlarmConsumer, vars, keys
    <3>2. Decides => UNCHANGED hold \/ \E d \in Deciders : DelHold(d)
      BY DEF Decides, Decide, ReadHold, SweepDue, GetHold, ZremHold, FindHeld, Confirm, Notify,
         ClaimFails, CrashDecider, keys
    <3> QED
      BY <1>2, <3>1, <3>2, Actors
  <2>4. PICK d \in Deciders : DelHold(d)
    BY <2>3
  <2>5. claim'[d].pc = "zrem" /\ claim'[d].raw = a /\ Finishes(d)' = a
    BY <1>0, <2>4, Captures
  <2>6. HasIt(d, a)'
    BY <1>0, <2>5 DEF HasIt, At
  <2> QED
    BY <2>6 DEF UnderWay
<1> QED
  BY <1>1, <1>2

\* A decider keeps the alarm it has until it has finished it.
LEMMA ClaimStaysUnderWay ==
  ASSUME TypeInv, Reliable, FinishesItsClaim, [Next]_vars,
         NEW a \in Alerts, NEW d \in Deciders, HasIt(d, a)
  PROVE  UnderWay(a)'
<1>0. claim[d].pc \in {"zrem", "find", "detail", "notify"}
  BY DEF HasIt, At
<1>1. CASE claim'[d] = claim[d]
  <2>1. HasIt(d, a)'
    BY <1>1 DEF HasIt, At, Finishes
  <2> QED
    BY <2>1 DEF UnderWay
<1>2. CASE ZremHold(d)
  <2>1. claim[d].raw # None /\ Finishes(d) = a /\ claim[d].pc = "zrem"
    BY <1>2, RemovesDeadline DEF HasIt
  <2>2. claim'[d].pc = "find" /\ claim'[d].alert = a
    BY <1>2, <2>1, RemovesDeadline
  <2>3. HasIt(d, a)'
    BY <2>2 DEF HasIt
  <2> QED
    BY <2>3 DEF UnderWay
<1>3. CASE FindHeld(d) \/ Confirm(d) \/ Notify(d)
  <2>1. claim[d].alert = a
    BY <1>3, FinishesHold DEF HasIt, At
  <2>2. CASE claim'[d].pc \in {"detail", "notify"} /\ claim'[d].alert = a
    <3>1. HasIt(d, a)'
      BY <2>2 DEF HasIt
    <3> QED
      BY <3>1 DEF UnderWay
  <2>3. CASE IsTold(a)
    BY <2>3 DEF IsTold, Told, UnderWay
  <2> QED
    BY <1>3, <2>1, <2>2, <2>3, FinishesHold
<1>4. ~GetHold(d) /\ ~DelHold(d)
  BY <1>0, GetsHold, DeletesHold
<1>5. ~(d = Positions /\ ReadHold) /\ ~(d \in Sweepers /\ SweepDue(d))
  BY <1>0 DEF ReadHold, SweepDue, At
<1> QED
  BY <1>1, <1>2, <1>3, <1>4, <1>5, DeciderActs DEF Decide

LEMMA AllUnderWayStep ==
  ASSUME TypeInv, References, Ages, Reliable, QuietBefore, HoldIsPursued, FinishesItsClaim,
         AllUnderWay, [Next]_vars
  PROVE  AllUnderWay'
<1> SUFFICES ASSUME NEW a \in Alerts, Lasts(a) PROVE UnderWay(a)'
  BY DEF AllUnderWay, Exists, Lasts
<1>1. CASE ~Exists(a)
  BY <1>1, RaisedIsHeldNext DEF UnderWay
<1>2. CASE Exists(a)
  <2>1. UnderWay(a)
    BY <1>2 DEF AllUnderWay
  <2>2. CASE Told(a)
    BY <2>2, ToldStays DEF UnderWay
  <2>3. CASE job.pc = "hold" /\ job.id = a
    BY <2>3, HoldsNext DEF UnderWay
  <2>4. CASE hold = a
    BY <2>4, HoldStaysUnderWay
  <2>5. CASE \E d \in Deciders : HasIt(d, a)
    BY <2>5, ClaimStaysUnderWay
  <2> QED
    BY <2>1, <2>2, <2>3, <2>4, <2>5 DEF UnderWay
<1> QED
  BY <1>1, <1>2

LEMMA PursuitStep ==
  TypeInv /\ References /\ Ages /\ Calm /\ Token /\ Pursuit /\ [Next]_vars => Pursuit'
<1> SUFFICES ASSUME TypeInv, References, Ages, Calm, Token, Pursuit, [Next]_vars, Reliable'
             PROVE  QuietBefore' /\ HoldIsPursued' /\ FinishesItsClaim' /\ AllUnderWay'
  BY DEF Pursuit
<1>1. Reliable /\ Steady /\ Careful
  BY FaultsStay, ReliableTimes DEF Reliable
<1>2. HoldsAreCurrent /\ OneIsOpen /\ CurrentIsOpen
  BY <1>1 DEF Calm, Token
<1>3. QuietBefore /\ HoldIsPursued /\ FinishesItsClaim /\ AllUnderWay
  BY <1>1 DEF Pursuit
<1> QED
  BY <1>1, <1>2, <1>3, QuietBeforeStep, HoldIsPursuedStep, FinishesItsClaimStep, AllUnderWayStep

-----------------------------------------------------------------------------
(* Theorems *)

AlarmInv == TypeInv /\ References /\ Ages /\ Calm /\ Token /\ Dedup /\ Order /\ Pursuit

LEMMA AlarmInvHolds == Spec => []AlarmInv
<1>1. Init => AlarmInv
  BY TypeInit, RefersInit, AgesInit, CalmInit, TokenInit, DedupInit, OrderInit, PursuitInit
  DEF AlarmInv
<1>2. AlarmInv /\ [Next]_vars => AlarmInv'
  BY TypeStep, RefersStep, AgesStep, CalmStep, TokenStep, DedupStep, OrderStep, PursuitStep
  DEF AlarmInv
<1> QED
  BY <1>1, <1>2, PTL DEF Spec

\* One alarm at most is OPEN, as findLatestOpen and supersedeAlert take it, unless a
\* hold outlives its age or a device delivers old detections.
THEOREM OneOpenHolds == Spec => []OneOpen
<1>1. ASSUME AlarmInv, Steady PROVE Cardinality(Opened) <= 1
  <2>1. \A a, b \in Opened : a = b
    BY <1>1 DEF AlarmInv, Calm, OneIsOpen
  <2>2. CASE Opened = {}
    BY <2>2, FS_EmptySet
  <2>3. CASE Opened # {}
    <3>1. PICK a : Opened = {a}
      BY <2>1, <2>3
    <3>2. Cardinality({a}) = 1
      BY FS_Singleton
    <3> QED
      BY <3>1, <3>2
  <2> QED
    BY <2>2, <2>3
<1>2. AlarmInv => OneOpen
  BY <1>1 DEF OneOpen, Steady
<1> QED
  BY <1>2, AlarmInvHolds, PTL

\* An alarm cancelled by the vehicle driving on is not told, whatever the positions
\* and the sweeps of all pods read of the hold.
THEOREM CancelledIsSilentHolds == Spec => []CancelledIsSilent
<1>1. AlarmInv => CancelledIsSilent
  BY DEF AlarmInv, Token, OneDecides, CancelledIsSilent
<1> QED
  BY <1>1, AlarmInvHolds, PTL

\* The dedup key does not outlive a failed INSERT: processDeviceAlarm gives it back.
THEOREM DedupMeansAlarmHolds == Spec => []DedupMeansAlarm
<1>1. AlarmInv => DedupMeansAlarm
  BY DEF AlarmInv, Dedup, Sober, Current, DedupMeansAlarm
<1> QED
  BY <1>1, AlarmInvHolds, PTL

\* No alarm is superseded for a detection that then raises none.
THEOREM SupersededHasSuccessorHolds == Spec => []SupersededHasSuccessor
<1>1. AlarmInv => SupersededHasSuccessor
  BY DEF AlarmInv, Order, Plain, Replaced, Superseded, Successor, Exists, NoJob,
     SupersededHasSuccessor
<1> QED
  BY <1>1, AlarmInvHolds, PTL

\* No alarm is forgotten: until it has been told or cancelled its message has still to
\* hold it, a hold that will fall due is there, or one decider has claimed it, although
\* INSERTs fail and positions and sweeps race for the hold.
THEOREM DecisionsAreUnderWay == Spec => []DecisionIsUnderWay
<1>1. AlarmInv => DecisionIsUnderWay
  BY DEF AlarmInv, Pursuit, Reliable, AllUnderWay, UnderWay, HasIt, Exists, DecisionIsUnderWay
<1> QED
  BY <1>1, AlarmInvHolds, PTL

\* Whatever happens to processes, calls and messages, each alarm lives the life of
\* AlarmLifecycle: no late UPDATE reopens it, and in careful times it is told once.
THEOREM AlarmsLiveTheLifecycle == Spec => LifecycleSpec
<1>1. Init => Lifecycle!Init
  <2> SUFFICES ASSUME Init PROVE Lifecycle!Init
    OBVIOUS
  <2>1. \A a \in Alerts : alert[a].status = "NONE"
    BY DEF Init, NoRow
  <2>2. [a \in Alerts |-> alert[a].status] = [a \in Alerts |-> "NONE"]
    BY ONLY <2>1
  <2>3. Careful \in BOOLEAN
    BY DEF Careful
  <2> QED
    BY <2>2, <2>3, Zenon DEF Init, Lifecycle!Init
<1>2. AlarmInv /\ [Next]_vars
      => [Lifecycle!Next]_<<[a \in Alerts |-> alert[a].status], notified, Careful>>
  <2> SUFFICES ASSUME AlarmInv, [Next]_vars
               PROVE  [Lifecycle!Next]_<<Shown, notified, Careful>>
    BY DEF Shown
  <2>1. Shown' = ShownNext /\ Careful' = Careful
    BY FaultsStay DEF Shown, ShownNext, Careful
  <2>2. CASE ShownNext # Shown
    <3>1. PICK a \in Alerts, s \in {"OPEN", "ACKNOWLEDGED", "RESOLVED"} :
            /\ <<Shown[a], s>> \in Lifecycle!Later
            /\ ShownNext = [Shown EXCEPT ![a] = s]
            /\ UNCHANGED notified
      BY <2>2, ShownMoves DEF AlarmInv
    <3>2. Lifecycle!Move(a)
      BY <2>1, <3>1 DEF Lifecycle!Move, Shown
    <3> QED
      BY <3>2 DEF Lifecycle!Next
  <2>3. CASE ShownNext = Shown /\ ~UNCHANGED notified
    <3>1. PICK a \in Alerts : /\ Shown[a] # "NONE"
                              /\ Careful => notified[a] = 0
                              /\ notified' = [notified EXCEPT ![a] = @ + 1]
      BY <2>3, NotifiedMoves DEF AlarmInv
    <3>2. Lifecycle!Tell(a)
      BY <2>1, <2>3, <3>1 DEF Lifecycle!Tell, Shown
    <3> QED
      BY <3>2 DEF Lifecycle!Next
  <2> QED
    BY <2>1, <2>2, <2>3
<1> QED
  BY <1>1, <1>2, AlarmInvHolds, PTL DEF Spec, LifecycleSpec, Lifecycle!Spec
===============================================================================
