-------------------------- MODULE AutoscalingProofs --------------------------
(***************************************************************************)
(* Theorems about Autoscaling, for every set of evaluations, requests and  *)
(* policies and every bound.  CrossInv says which evaluations may find the *)
(* cooldown started under them; ScaleInv follows the one scaling that is   *)
(* under way when the last one met no other.                               *)
(***************************************************************************)
EXTENDS Autoscaling, TLAPS

\* Evaluations that are under way together have crossed one another, and one
\* that has read the policy while it cools down has been crossed.
CrossInv ==
    \A e \in Evaluations :
        /\ \A f \in Evaluations \ {e} : eval[e] /= "idle" /\ eval[f] /= "idle" => e \in crossed
        /\ eval[e] = "read" /\ cooling => e \in crossed

\* An evaluation that has not decided has read a policy and has no command.
ReadInv ==
    /\ \A e \in Evaluations :
          eval[e] = "read" => seen[e].policy \in Policies /\ task[e] = "none"
    /\ scaled \/ (\E e \in Evaluations : Busy(e)) => policy /= NoPolicy

\* e has dispatched a command that has not ended, or has not recorded it.
Holds(e) == eval[e] = "record" \/ task[e] /= "none"

\* Where the containers are when the command of e has got to a point.
Tracks(e) ==
    /\ task[e] = "listed" => listed[e] = replicas
    /\ task[e] = "trimmed" => replicas = listed[e] \ Beyond(e)
    /\ task[e] \in {"done", "none"} => replicas = 0..(wants[e] - 1)
    /\ task[e] = "none" => current = wants[e]

\* Unless the last scaling went astray, at most one is under way, and without
\* one the row counts the containers.
ScaleInv ==
    ~strayed =>
        /\ \A e, f \in Evaluations : Holds(e) /\ Holds(f) => e = f
        /\ \A e \in Evaluations : Holds(e) => Tracks(e)
        /\ scaled /\ (\A e \in Evaluations : ~Holds(e)) => replicas = 0..(current - 1)

IInv == TypeOK /\ CrossInv /\ ReadInv /\ ScaleInv

-----------------------------------------------------------------------------
(* The decision *)

\* What is clamped is within the bounds of the policy.
LEMMA ClampWithin ==
    ASSUME NEW p \in Policies, NEW n \in Int
    PROVE  Clamp(p, n) \in p.min..p.max
BY PoliciesAssumption DEF Clamp

\* Clamping keeps the order.
LEMMA ClampMonotone ==
    ASSUME NEW p \in Policies, NEW m \in Int, NEW n \in Int, m <= n
    PROVE  Clamp(p, m) <= Clamp(p, n)
BY PoliciesAssumption DEF Clamp

\* Math.ceil of a quotient of natural numbers is the least number that, times
\* the divisor, reaches the dividend.
LEMMA CeilDivProperty ==
    ASSUME NEW a \in Nat, NEW b \in Nat \ {0}
    PROVE  /\ CeilDiv(a, b) \in Nat
           /\ b * CeilDiv(a, b) >= a
           /\ b * CeilDiv(a, b) < a + b
<1>. DEFINE q == (a + b - 1) \div b
            r == (a + b - 1) % b
<1>1. a + b - 1 \in Nat
  OBVIOUS
<1>2. q \in Nat /\ r \in 0..(b - 1) /\ a + b - 1 = b * q + r
  BY <1>1
<1>. QED  BY <1>2 DEF CeilDiv

\* The order of dividends is the order of quotients.
LEMMA CeilDivMonotone ==
    ASSUME NEW a \in Nat, NEW c \in Nat, NEW b \in Nat \ {0}, a <= c
    PROVE  CeilDiv(a, b) <= CeilDiv(c, b)
<1>. DEFINE x == CeilDiv(a, b)
            y == CeilDiv(c, b)
<1>1. x \in Nat /\ y \in Nat /\ b * x < a + b /\ b * y >= c
  BY CeilDivProperty
<1>. HIDE DEF x, y
<1>2. SUFFICES ASSUME x >= y + 1 PROVE FALSE
  BY <1>1 DEF x, y
<1>3. b * x >= b * (y + 1)
  BY <1>1, <1>2
<1>4. b * (y + 1) = b * y + b
  BY <1>1
<1>. QED  BY <1>1, <1>3, <1>4

\* A dividend that does not exceed k times the divisor has a quotient of at most k,
\* one that does has a larger one.
LEMMA CeilDivBound ==
    ASSUME NEW a \in Nat, NEW b \in Nat \ {0}, NEW k \in Nat
    PROVE  /\ a <= b * k => CeilDiv(a, b) <= k
           /\ a >= b * k => CeilDiv(a, b) >= k
<1>. DEFINE x == CeilDiv(a, b)
<1>1. x \in Nat /\ b * x < a + b /\ b * x >= a
  BY CeilDivProperty
<1>. HIDE DEF x
<1>2. ASSUME a <= b * k, x >= k + 1 PROVE FALSE
  <2>1. b * x >= b * (k + 1)
    BY <1>1, <1>2
  <2>. QED  BY <2>1, <1>1, <1>2
<1>3. ASSUME a >= b * k, x + 1 <= k PROVE FALSE
  <2>1. b * (x + 1) <= b * k
    BY <1>1, <1>3
  <2>. QED  BY <2>1, <1>1, <1>3
<1>4. (a <= b * k => x <= k) /\ (a >= b * k => x >= k)
  BY <1>1, <1>2, <1>3
<1>. QED  BY <1>4 DEF x

\* What an evaluation decides is within the policy it read, whatever the count
\* was and whatever was measured.
THEOREM DesiredWithin ==
    ASSUME NEW p \in Policies, NEW n \in Nat, NEW o \in Nat
    PROVE  Desired(p, n, o) \in p.min..p.max
<1>1. Base(n) * o \in Nat
  BY DEF Base
<1>2. CeilDiv(Base(n) * o, Target) \in Nat
  BY <1>1, MetricAssumption, CeilDivProperty
<1>. QED  BY <1>2, ClampWithin DEF Desired

\* For a running app, a higher load never asks for fewer replicas than a lower
\* one: below the deadband the quotient is at most the count, above it at least.
THEOREM DesiredMonotone ==
    ASSUME NEW p \in Policies, NEW n \in Nat \ {0}, NEW low \in Nat, NEW high \in Nat,
           low <= high
    PROVE  Desired(p, n, low) <= Desired(p, n, high)
<1>. DEFINE raw(o) == IF Deadband(o) THEN n ELSE CeilDiv(n * o, Target)
<1>1. \A o \in Nat : n * o \in Nat
  OBVIOUS
<1>2. \A o \in Nat : CeilDiv(n * o, Target) \in Nat
  BY <1>1, MetricAssumption, CeilDivProperty
<1>3. \A o \in Nat : raw(o) \in Nat /\ Desired(p, n, o) = Clamp(p, raw(o))
  BY <1>2 DEF Desired, Base
<1>4. n * low <= n * high
  OBVIOUS
<1>5. CeilDiv(n * low, Target) <= CeilDiv(n * high, Target)
  BY <1>1, <1>4, CeilDivMonotone, MetricAssumption
<1>6. ASSUME NEW o \in Nat, 10 * o <= 9 * Target PROVE CeilDiv(n * o, Target) <= n
  <2>1. o <= Target
    BY <1>6, MetricAssumption
  <2>2. n * o <= n * Target
    BY <2>1, MetricAssumption
  <2>3. n * Target = Target * n
    BY MetricAssumption
  <2>. QED  BY <2>2, <2>3, <1>1, CeilDivBound, MetricAssumption
<1>7. ASSUME NEW o \in Nat, 10 * o >= 11 * Target PROVE CeilDiv(n * o, Target) >= n
  <2>1. o >= Target
    BY <1>7, MetricAssumption
  <2>2. n * o >= n * Target
    BY <2>1, MetricAssumption
  <2>3. n * Target = Target * n
    BY MetricAssumption
  <2>. QED  BY <2>2, <2>3, <1>1, CeilDivBound, MetricAssumption
<1>8. raw(low) <= raw(high)
  <2>1. CASE Deadband(low) /\ Deadband(high)
    BY <2>1
  <2>2. CASE Deadband(low) /\ ~Deadband(high)
    <3>1. 10 * high >= 11 * Target
      BY <2>2, MetricAssumption DEF Deadband
    <3>. QED  BY <2>2, <3>1, <1>7
  <2>3. CASE ~Deadband(low) /\ Deadband(high)
    <3>1. 10 * low <= 9 * Target
      BY <2>3, MetricAssumption DEF Deadband
    <3>. QED  BY <2>3, <3>1, <1>6
  <2>4. CASE ~Deadband(low) /\ ~Deadband(high)
    BY <2>4, <1>5
  <2>. QED  BY <2>1, <2>2, <2>3, <2>4
<1>. HIDE DEF raw
<1>. QED  BY <1>3, <1>8, ClampMonotone

-----------------------------------------------------------------------------
(* The inductive invariant *)

LEMMA InitInv == Init => IInv
<1>. SUFFICES ASSUME Init PROVE IInv
  OBVIOUS
<1>1. TypeOK
  <2>1. Unseen \in [policy : Policies \union {NoPolicy}, current : Nat]
    BY DEF Unseen
  <2>2. seen \in [Evaluations -> [policy : Policies \union {NoPolicy}, current : Nat]]
    BY <2>1 DEF Init
  <2>3. faults \in 0..MaxFaults
    BY FaultAssumption DEF Init
  <2>. QED  BY <2>2, <2>3 DEF Init, TypeOK
<1>2. CrossInv /\ ReadInv /\ ScaleInv
  BY DEF Init, CrossInv, ReadInv, ScaleInv, Holds, Busy
<1>. QED  BY <1>1, <1>2 DEF IInv

\* What reading and deciding keep of the types.
LEMMA TypeNext == TypeOK /\ ReadInv /\ [Next]_vars => TypeOK'
<1>. SUFFICES ASSUME TypeOK, ReadInv, [Next]_vars PROVE TypeOK'
  OBVIOUS
<1>. USE FaultAssumption DEF TypeOK, rowVars, putVars, evalVars, nodeVars
<1>1. ASSUME NEW q \in Requests, NEW p \in Policies, Put(q, p) PROVE TypeOK'
  <2>1. p.min \in Nat
    BY PoliciesAssumption
  <2>. QED  BY <1>1, <2>1 DEF Put, Active
<1>2. ASSUME NEW q \in Requests, PutSchedule(q) \/ PutDies(q) PROVE TypeOK'
  <2>1. CASE PutSchedule(q)
    BY <2>1 DEF PutSchedule
  <2>2. CASE PutDies(q)
    BY <2>2 DEF PutDies, Fault
  <2>. QED  BY <1>2, <2>1, <2>2
<1>3. ASSUME NEW e \in Evaluations, EvalBegin(e) PROVE TypeOK'
  BY <1>3 DEF EvalBegin, Begin, Active
<1>4. ASSUME NEW e \in Evaluations, EvalNoMetrics(e) PROVE TypeOK'
  BY <1>4 DEF EvalNoMetrics, Forget, Unseen
<1>5. ASSUME NEW e \in Evaluations, NEW o \in Observations, EvalDecide(e, o) PROVE TypeOK'
  <2>. DEFINE desired == Desired(seen[e].policy, seen[e].current, o)
  <2>1. seen[e].policy \in Policies /\ seen[e].current \in Nat /\ o \in Nat
    BY <1>5, MetricAssumption DEF EvalDecide, ReadInv
  <2>2. desired \in Nat
    <3>1. desired \in seen[e].policy.min..seen[e].policy.max
      BY <2>1, DesiredWithin
    <3>2. seen[e].policy.min \in Nat /\ seen[e].policy.max \in Nat
      BY <2>1, PoliciesAssumption
    <3>. HIDE DEF desired
    <3>. QED  BY <3>1, <3>2
  <2>3. UNCHANGED <<policy, current, scaled, cooling, put, scheduled, listed, replicas, copies,
                    crossed, faults>> /\ Forget(e)
    BY <1>5 DEF EvalDecide
  <2>4. seen' \in [Evaluations -> [policy : Policies \union {NoPolicy}, current : Nat]]
    BY <2>3 DEF Forget, Unseen
  <2>5. eval' \in [Evaluations -> {"idle", "read", "record"}]
        /\ task' \in [Evaluations -> {"none", "sent", "listed", "trimmed", "done"}]
        /\ strayed' \in BOOLEAN
    BY <1>5 DEF EvalDecide
  <2>6. wants' \in [Evaluations -> Nat]
    <3>. HIDE DEF desired
    <3>1. wants' = wants \/ wants' = [wants EXCEPT ![e] = desired]
      BY <1>5 DEF EvalDecide, desired
    <3>. QED  BY <3>1, <2>2
  <2>. QED  BY <2>3, <2>4, <2>5, <2>6
<1>6. ASSUME NEW e \in Evaluations, EvalRecord(e) PROVE TypeOK'
  BY <1>6 DEF EvalRecord, ForgetIf
<1>7. ASSUME NEW e \in Evaluations, EvalFails(e) PROVE TypeOK'
  BY <1>7 DEF EvalFails, Forget, ForgetIf, Unseen, Fault
<1>8. CASE CoolDown
  BY <1>8 DEF CoolDown
<1>9. ASSUME NEW e \in Evaluations, Scaling(e) PROVE TypeOK'
  <2>1. ASSUME NEW to \in {"none", "listed", "trimmed", "done"}, NEW from, Step(e, from, to)
        PROVE  /\ UNCHANGED <<put, scheduled, eval, seen, crossed>>
               /\ task' \in [Evaluations -> {"none", "sent", "listed", "trimmed", "done"}]
               /\ listed' \in [Evaluations -> SUBSET Nat]
               /\ wants' \in [Evaluations -> Nat]
    BY <2>1 DEF Step, ForgetIf
  <2>2. CASE ScaleList(e)
    BY <2>1, <2>2 DEF ScaleList
  <2>3. CASE ScaleRemove(e)
    BY <2>1, <2>3 DEF ScaleRemove
  <2>4. CASE ScaleRemoveFails(e)
    <3>1. replicas' \subseteq Nat
      BY <2>4 DEF ScaleRemoveFails
    <3>. QED  BY <2>1, <2>4, <3>1 DEF ScaleRemoveFails, Fault
  <2>5. Missing(e) \subseteq Nat
    BY DEF Missing
  <2>6. CASE ScaleCreate(e)
    BY <2>1, <2>5, <2>6 DEF ScaleCreate
  <2>7. CASE ScaleCreateFails(e)
    <3>1. replicas' \subseteq Nat
      BY <2>5, <2>7 DEF ScaleCreateFails
    <3>. QED  BY <2>1, <2>7, <3>1 DEF ScaleCreateFails, Fault
  <2>8. CASE Report(e)
    BY <2>1, <2>8 DEF Report
  <2>9. CASE ReportTwice(e)
    <3>1. wants[e] \in Nat
      OBVIOUS
    <3>2. current' \in Nat /\ copies' \subseteq Nat
      BY <2>9, <3>1 DEF ReportTwice
    <3>. QED  BY <2>1, <2>9, <3>2 DEF ReportTwice, Fault
  <2>10. CASE CommandLost(e)
    BY <2>1, <2>10 DEF CommandLost, Fault
  <2>11. CASE ScaleRefuse(e)
    BY <2>1, <2>11 DEF ScaleRefuse
  <2>12. CASE ScaleTimesOut(e)
    BY <2>1, <2>12 DEF ScaleTimesOut, Fault
  <2>. QED  BY <1>9, <2>2, <2>3, <2>4, <2>6, <2>7, <2>8, <2>9, <2>10, <2>11, <2>12 DEF Scaling
<1>10. ASSUME NEW n \in copies, ReportLate(n) PROVE TypeOK'
  BY <1>10 DEF ReportLate
<1>11. CASE UNCHANGED vars
  BY <1>11 DEF vars
<1>. QED  BY <1>1, <1>2, <1>3, <1>4, <1>5, <1>6, <1>7, <1>8, <1>9, <1>10, <1>11 DEF Next, Evaluation

\* Whatever starts the cooldown marks the evaluations under way, or is one of two
\* that were.
LEMMA CrossNext == TypeOK /\ CrossInv /\ [Next]_vars => CrossInv'
<1>. SUFFICES ASSUME TypeOK, CrossInv, [Next]_vars PROVE CrossInv'
  OBVIOUS
<1>. USE DEF TypeOK, CrossInv, rowVars, evalVars
<1>1. ASSUME NEW q \in Requests, NEW p \in Policies, Put(q, p) PROVE CrossInv'
  BY <1>1 DEF Put, Active
<1>2. ASSUME NEW q \in Requests, PutSchedule(q) \/ PutDies(q) PROVE CrossInv'
  BY <1>2 DEF PutSchedule, PutDies
<1>3. ASSUME NEW e \in Evaluations, EvalBegin(e) PROVE CrossInv'
  <2>1. ~cooling' /\ eval' = [eval EXCEPT ![e] = "read"] /\ eval[e] = "idle"
        /\ crossed' = IF Active = {} THEN crossed \ {e} ELSE crossed \union Active \union {e}
    BY <1>3 DEF EvalBegin, Begin, Busy
  <2>2. CASE Active = {}
    BY <2>1, <2>2 DEF Active
  <2>3. CASE Active /= {}
    BY <2>1, <2>3 DEF Active
  <2>. QED  BY <2>2, <2>3
<1>4. ASSUME NEW e \in Evaluations, EvalNoMetrics(e) \/ EvalFails(e) PROVE CrossInv'
  BY <1>4 DEF EvalNoMetrics, EvalFails
<1>5. ASSUME NEW e \in Evaluations, NEW o \in Observations, EvalDecide(e, o) PROVE CrossInv'
  <2>1. UNCHANGED <<cooling, crossed>> /\ eval[e] = "read"
        /\ \E d \in {"idle", "record"} : eval' = [eval EXCEPT ![e] = d]
    BY <1>5 DEF EvalDecide
  <2>. QED  BY <2>1
<1>6. ASSUME NEW e \in Evaluations, EvalRecord(e) PROVE CrossInv'
  BY <1>6 DEF EvalRecord
<1>7. CASE CoolDown
  BY <1>7 DEF CoolDown
<1>8. ASSUME NEW e \in Evaluations, Scaling(e) PROVE CrossInv'
  <2>1. UNCHANGED <<eval, cooling, crossed>>
    BY <1>8 DEF Scaling, Step, ScaleList, ScaleRemove, ScaleRemoveFails, ScaleCreate,
       ScaleCreateFails, ScaleRefuse, ScaleTimesOut, Report, ReportTwice, CommandLost
  <2>. QED  BY <2>1
<1>9. ASSUME NEW n \in copies, ReportLate(n) PROVE CrossInv'
  BY <1>9 DEF ReportLate
<1>10. CASE UNCHANGED vars
  BY <1>10 DEF vars
<1>. QED  BY <1>1, <1>2, <1>3, <1>4, <1>5, <1>6, <1>7, <1>8, <1>9, <1>10 DEF Next, Evaluation

\* Evaluations begin with a policy, and a policy is never taken away.
LEMMA ReadNext == TypeOK /\ ReadInv /\ [Next]_vars => ReadInv'
<1>. SUFFICES ASSUME TypeOK, ReadInv, [Next]_vars PROVE ReadInv'
  OBVIOUS
<1>. USE DEF TypeOK, ReadInv, Busy, rowVars, evalVars, nodeVars
<1>1. ASSUME NEW q \in Requests, NEW p \in Policies, Put(q, p) PROVE ReadInv'
  BY <1>1, NoPolicyAssumption DEF Put
<1>2. ASSUME NEW q \in Requests, PutSchedule(q) \/ PutDies(q) PROVE ReadInv'
  BY <1>2 DEF PutSchedule, PutDies
<1>3. ASSUME NEW e \in Evaluations, EvalBegin(e) PROVE ReadInv'
  BY <1>3 DEF EvalBegin, Begin
<1>4. ASSUME NEW e \in Evaluations, EvalNoMetrics(e) \/ EvalFails(e) PROVE ReadInv'
  BY <1>4 DEF EvalNoMetrics, EvalFails, Forget
<1>5. ASSUME NEW e \in Evaluations, NEW o \in Observations, EvalDecide(e, o) PROVE ReadInv'
  <2>1. UNCHANGED <<policy, scaled>> /\ eval[e] = "read" /\ Forget(e)
        /\ (\E d \in {"idle", "record"} : eval' = [eval EXCEPT ![e] = d])
        /\ (task' = task \/ task' = [task EXCEPT ![e] = "sent"])
    BY <1>5 DEF EvalDecide
  <2>. QED  BY <2>1 DEF Forget
<1>6. ASSUME NEW e \in Evaluations, EvalRecord(e) PROVE ReadInv'
  BY <1>6 DEF EvalRecord
<1>7. CASE CoolDown
  BY <1>7 DEF CoolDown
<1>8. ASSUME NEW e \in Evaluations, Scaling(e) PROVE ReadInv'
  <2>1. UNCHANGED <<policy, scaled, eval, seen>>
    BY <1>8 DEF Scaling, Step, ScaleList, ScaleRemove, ScaleRemoveFails, ScaleCreate,
       ScaleCreateFails, ScaleRefuse, ScaleTimesOut, Report, ReportTwice, CommandLost
  <2>2. \A f \in Evaluations : task'[f] /= "none" => task[f] /= "none"
    BY <1>8 DEF Scaling, Step, ScaleList, ScaleRemove, ScaleRemoveFails, ScaleCreate,
       ScaleCreateFails, ScaleRefuse, ScaleTimesOut, Report, ReportTwice, CommandLost
  <2>. QED  BY <2>1, <2>2
<1>9. ASSUME NEW n \in copies, ReportLate(n) PROVE ReadInv'
  BY <1>9 DEF ReportLate
<1>10. CASE UNCHANGED vars
  BY <1>10 DEF vars
<1>. QED  BY <1>1, <1>2, <1>3, <1>4, <1>5, <1>6, <1>7, <1>8, <1>9, <1>10 DEF Next, Evaluation


\* While one scaling is under way its containers are where its task says; another
\* that begins beside it makes the last one go astray.
LEMMA ScaleNext == TypeOK /\ ReadInv /\ ScaleInv /\ [Next]_vars => ScaleInv'
<1>. SUFFICES ASSUME TypeOK, ReadInv, ScaleInv, [Next]_vars, ~strayed' PROVE ScaleInv'
  BY DEF ScaleInv
<1>. USE DEF TypeOK, ScaleInv, Holds, Tracks, Beyond, rowVars, evalVars, nodeVars
<1>1. ASSUME NEW q \in Requests, NEW p \in Policies, Put(q, p) PROVE ScaleInv'
  <2>1. UNCHANGED <<scaled, eval, wants, task, listed, replicas, strayed>>
    BY <1>1 DEF Put
  <2>2. current' = current \/ (~scaled /\ \A e \in Evaluations : ~Holds(e))
    BY <1>1 DEF Put, ReadInv, Busy
  <2>. QED  BY <2>1, <2>2
<1>2. ASSUME NEW q \in Requests, PutSchedule(q) \/ PutDies(q) PROVE ScaleInv'
  BY <1>2 DEF PutSchedule, PutDies
<1>3. ASSUME NEW e \in Evaluations, EvalBegin(e) PROVE ScaleInv'
  BY <1>3 DEF EvalBegin, Begin, Busy
<1>4. ASSUME NEW e \in Evaluations, EvalNoMetrics(e) PROVE ScaleInv'
  BY <1>4 DEF EvalNoMetrics
<1>5. ASSUME NEW e \in Evaluations, NEW o \in Observations, EvalDecide(e, o) PROVE ScaleInv'
  <2>. DEFINE desired == Desired(seen[e].policy, seen[e].current, o)
  <2>1. eval[e] = "read" /\ task[e] = "none" /\ UNCHANGED <<current, scaled, listed, replicas>>
    BY <1>5 DEF EvalDecide, ReadInv
  <2>2. CASE desired = seen[e].current
    <3>1. eval' = [eval EXCEPT ![e] = "idle"] /\ UNCHANGED <<wants, task, strayed>>
      BY <1>5, <2>2 DEF EvalDecide
    <3>2. \A f \in Evaluations : Holds(f)' <=> Holds(f)
      BY <2>1, <3>1
    <3>. QED  BY <2>1, <3>1, <3>2
  <2>3. CASE desired /= seen[e].current
    <3>1. eval' = [eval EXCEPT ![e] = "record"] /\ task' = [task EXCEPT ![e] = "sent"]
          /\ strayed' = \E f \in Evaluations \ {e} : Busy(f)
      BY <1>5, <2>3 DEF EvalDecide
    <3>2. \A f \in Evaluations \ {e} : ~Holds(f)'
      BY <3>1 DEF Busy
    <3>3. Holds(e)' /\ task'[e] = "sent"
      BY <3>1
    <3>. QED  BY <3>2, <3>3
  <2>. QED  BY <2>2, <2>3
<1>6. ASSUME NEW e \in Evaluations, EvalRecord(e) PROVE ScaleInv'
  <2>1. eval[e] = "record" /\ eval' = [eval EXCEPT ![e] = "idle"] /\ current' = wants[e]
        /\ UNCHANGED <<task, listed, replicas, strayed>>
    BY <1>6 DEF EvalRecord
  <2>2. \A f \in Evaluations : Holds(f) => f = e
    BY <2>1
  <2>3. CASE task[e] = "none"
    BY <2>1, <2>2, <2>3
  <2>4. CASE task[e] /= "none"
    <3>1. wants' = wants
      BY <1>6, <2>4 DEF EvalRecord, ForgetIf
    <3>. QED  BY <2>1, <2>2, <2>4, <3>1
  <2>. QED  BY <2>3, <2>4
<1>7. ASSUME NEW e \in Evaluations, EvalFails(e) PROVE ScaleInv'
  <2>1. eval' = [eval EXCEPT ![e] = "idle"]
        /\ UNCHANGED <<current, scaled, task, listed, replicas, strayed>>
    BY <1>7 DEF EvalFails
  <2>2. \A f \in Evaluations : Holds(f)' => wants'[f] = wants[f]
    BY <1>7, <2>1 DEF EvalFails, ForgetIf
  <2>3. \A f \in Evaluations : Holds(f)' => Holds(f) /\ task[f] = task'[f]
    BY <2>1
  <2>4. \A f \in Evaluations : Holds(f)' => Tracks(f)'
    BY <2>1, <2>2, <2>3
  <2>5. ASSUME scaled', \A f \in Evaluations : ~Holds(f)' PROVE replicas' = 0..(current' - 1)
    <3>1. CASE Holds(e)
      BY <2>1, <2>5, <3>1
    <3>2. CASE ~Holds(e)
      BY <2>1, <2>5, <3>2
    <3>. QED  BY <3>1, <3>2
  <2>. QED  BY <2>1, <2>3, <2>4, <2>5
<1>8. CASE CoolDown
  BY <1>8 DEF CoolDown
<1>9. ASSUME NEW e \in Evaluations, Scaling(e) PROVE ScaleInv'
  <2>1. CASE ScaleList(e)
    BY <2>1 DEF ScaleList, Step
  <2>2. CASE ScaleRemove(e)
    BY <2>2 DEF ScaleRemove, Step
  <2>3. CASE ScaleCreate(e)
    <3>1. task[e] = "trimmed" /\ task' = [task EXCEPT ![e] = "done"]
          /\ UNCHANGED <<eval, wants, current, scaled, strayed>>
          /\ replicas' = replicas \union Missing(e)
      BY <2>3 DEF ScaleCreate, Step
    <3>2. \A f \in Evaluations : Holds(f) => f = e
      BY <3>1
    <3>3. replicas = listed[e] \ Beyond(e) /\ listed[e] \subseteq Nat /\ wants[e] \in Nat
      BY <3>1
    <3>4. replicas' = 0..(wants[e] - 1)
      BY <3>1, <3>3 DEF Missing
    <3>5. \A f \in Evaluations : Holds(f)' => f = e
      BY <3>1, <3>2
    <3>6. Tracks(e)'
      <4>1. task'[e] = "done" /\ wants' = wants
        BY <3>1
      <4>. HIDE DEF TypeOK, ScaleInv, Holds, Beyond
      <4>. QED  BY <3>4, <4>1
    <3>7. Holds(e)'
      BY <3>1
    <3>. HIDE DEF TypeOK, Holds, Tracks, Beyond
    <3>. QED  BY <3>5, <3>6, <3>7
  <2>4. CASE Report(e) \/ ReportTwice(e)
    <3>1. task[e] = "done" /\ task' = [task EXCEPT ![e] = "none"] /\ current' = wants[e]
          /\ UNCHANGED <<eval, scaled, replicas, strayed>>
          /\ (eval[e] = "record" => wants' = wants)
      BY <2>4 DEF Report, ReportTwice, Step, ForgetIf
    <3>2. \A f \in Evaluations : Holds(f) => f = e
      BY <3>1
    <3>3. replicas = 0..(wants[e] - 1)
      BY <3>1
    <3>. QED  BY <3>1, <3>2, <3>3
  <2>5. CASE ScaleRemoveFails(e) \/ ScaleCreateFails(e) \/ ScaleRefuse(e) \/ ScaleTimesOut(e) \/ CommandLost(e)
    BY <2>5 DEF ScaleRemoveFails, ScaleCreateFails, ScaleRefuse, ScaleTimesOut, CommandLost
  <2>. QED  BY <1>9, <2>1, <2>2, <2>3, <2>4, <2>5 DEF Scaling
<1>10. ASSUME NEW n \in copies, ReportLate(n) PROVE ScaleInv'
  \* The copy repeats the count, or the scaling has gone astray.
  BY <1>10 DEF ReportLate
<1>11. CASE UNCHANGED vars
  BY <1>11 DEF vars
<1>. QED  BY <1>1, <1>2, <1>3, <1>4, <1>5, <1>6, <1>7, <1>8, <1>9, <1>10, <1>11 DEF Next, Evaluation

-----------------------------------------------------------------------------
(* The theorems *)

THEOREM Inductive == Spec => []IInv
<1>1. Init => IInv
  BY InitInv
<1>2. IInv /\ [Next]_vars => IInv'
  BY TypeNext, CrossNext, ReadNext, ScaleNext DEF IInv
<1>. QED  BY <1>1, <1>2, PTL DEF Spec

\* The row, the evaluations and the node are in the states the code knows, and no
\* count is ever negative.
THEOREM TypeCorrect == Spec => []TypeOK
<1>1. IInv => TypeOK
  BY DEF IInv
<1>. QED  BY <1>1, Inductive, PTL

\* At rest, the node runs the replicas the row counts, unless the last scaling met
\* another one, was refused or lost, or left containers that failed behind, or the
\* report of an earlier one came after it.
THEOREM NodeRunsTheCount == Spec => []NodeAgrees
<1>1. IInv => NodeAgrees
  BY DEF IInv, ScaleInv, NodeAgrees, Holds, Busy
<1>. QED  BY <1>1, Inductive, PTL

\* An evaluation dispatches during the cooldown only if another one, or a
\* request that changed the policy, was under way while it was.
THEOREM OneScalingPerCooldown == Spec => CooldownKept
<1>1. IInv /\ [Next]_vars =>
         [\A e \in Evaluations :
             task[e] = "none" /\ task'[e] = "sent" /\ cooling => e \in crossed]_vars
  <2>1. SUFFICES ASSUME IInv, Next, NEW e \in Evaluations,
                        task[e] = "none", task'[e] = "sent", cooling
                 PROVE  e \in crossed
    BY DEF vars
  <2>2. task \in [Evaluations -> {"none", "sent", "listed", "trimmed", "done"}]
    BY <2>1 DEF IInv, TypeOK
  <2>3. ASSUME NEW f \in Evaluations, Scaling(f) PROVE FALSE
    <3>1. \A to \in {"none", "listed", "trimmed", "done"} :
             ~(task' = [task EXCEPT ![f] = to])
      BY <2>1, <2>2
    <3>2. task' = task => FALSE
      BY <2>1
    <3>. QED  BY <2>3, <3>1, <3>2 DEF Scaling, Step, ScaleList, ScaleRemove, ScaleRemoveFails,
              ScaleCreate, ScaleCreateFails, ScaleRefuse, ScaleTimesOut, Report, ReportTwice, CommandLost, nodeVars
  <2>4. task' /= task
    BY <2>1
  <2>5. \E f \in Evaluations, o \in Observations : EvalDecide(f, o)
    BY <2>1, <2>3, <2>4 DEF Next, ReportLate, Put, PutSchedule, PutDies, Evaluation, EvalBegin, Begin,
       EvalNoMetrics, EvalRecord, EvalFails, CoolDown, nodeVars
  <2>6. PICK f \in Evaluations, o \in Observations : EvalDecide(f, o)
    BY <2>5
  <2>7. eval[f] = "read" /\ (task' = task \/ task' = [task EXCEPT ![f] = "sent"])
    BY <2>6 DEF EvalDecide
  <2>8. f = e
    BY <2>1, <2>2, <2>4, <2>7
  <2>. QED  BY <2>1, <2>7, <2>8 DEF IInv, CrossInv
<1>. QED  BY <1>1, Inductive, PTL DEF Spec, CooldownKept

=============================================================================
