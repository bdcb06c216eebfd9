------------------------- MODULE NodeLifecycleProofs -------------------------
(***************************************************************************)
(* Theorems about NodeLifecycle, for every set of nodes, tokens and sweeps *)
(* and every bound.  TokenInv says what two holders of one token have in   *)
(* common; RowInv says that whoever is about to write the row of a node    *)
(* found a node that had been registered.                                  *)
(***************************************************************************)
EXTENDS NodeLifecycle, TLAPS

Holds(n) == reg[n] \in {"checked", "registered"}

\* A token that admitted a node is not fresh any more, and two registrations
\* hold the same token only if they raced for it.
TokenInv ==
    \A n \in Nodes :
        /\ Holds(n) => with[n] \in Tokens
        /\ reg[n] = "registered" => token[with[n]] \in {"used", "purged"}
        /\ \A m \in Nodes : Holds(n) /\ Holds(m) /\ with[n] = with[m] =>
              n = m \/ with[n] \in raced

\* Only registered nodes have rows and writers, and a removed one no credential.
RowInv ==
    \A n \in Nodes :
        /\ \/ Exists(n) \/ beats[n] > 0 \/ requests[n] /= {} \/ deleted[n] \/ credential[n]
           \/ \E s \in Sweeps : sweep[s][n] /= "none"
           => reg[n] = "registered"
        /\ deleted[n] => ~credential[n]

IInv == TypeOK /\ TokenInv /\ RowInv

-----------------------------------------------------------------------------
\* The inductive invariant holds initially.
LEMMA InitInv == Init => IInv
BY BeatsAssumption, BoundsAssumption
   DEF Init, IInv, TypeOK, TokenInv, Holds, RowInv, Exists

\* Every step keeps the types.
LEMMA TypeNext == TypeOK /\ [Next]_vars => TypeOK'
<1>. SUFFICES ASSUME TypeOK, [Next]_vars PROVE TypeOK'
  OBVIOUS
<1>. USE BeatsAssumption, BoundsAssumption DEF TypeOK, nodeVars, bounds
<1>1. ASSUME NEW n \in Nodes, Registration(n) PROVE TypeOK'
  <2>1. CASE RegisterCommit(n)
    <3>1. CASE token[with[n]] = "purged"
      BY <2>1, <3>1 DEF RegisterCommit
    <3>2. CASE token[with[n]] /= "purged"
      BY <2>1, <3>2 DEF RegisterCommit, Statuses
    <3>. QED  BY <3>1, <3>2
  <2>2. CASE RegisterFails(n)
    BY <2>2 DEF RegisterFails, Fault
  <2>3. ASSUME NEW t \in Tokens, RegisterCheck(n, t) PROVE TypeOK'
    BY <2>3 DEF RegisterCheck
  <2>. QED  BY <1>1, <2>1, <2>2, <2>3 DEF Registration
<1>2. ASSUME NEW n \in Nodes, Agent(n) PROVE TypeOK'
  <2>1. CASE AgentStarts(n)
    BY <2>1 DEF AgentStarts, tokenVars
  <2>2. CASE AgentStops(n)
    BY <2>2 DEF AgentStops, tokenVars, Fault
  <2>3. CASE Heartbeat(n)
    BY <2>3 DEF Heartbeat, BeginBeat, tokenVars
  <2>4. CASE HeartbeatAgain(n)
    BY <2>4 DEF HeartbeatAgain, BeginBeat, tokenVars, Fault
  <2>5. CASE ApplyBeat(n)
    BY <2>5 DEF ApplyBeat, tokenVars, Statuses
  <2>6. CASE BeatFails(n)
    BY <2>6 DEF BeatFails, tokenVars, Fault
  <2>. QED  BY <1>2, <2>1, <2>2, <2>3, <2>4, <2>5, <2>6 DEF Agent
<1>3. ASSUME NEW n \in Nodes, Age(n) PROVE TypeOK'
  BY <1>3 DEF Age, tokenVars
<1>4. ASSUME NEW n \in Nodes, Operator(n) PROVE TypeOK'
  <2>1. ASSUME NEW q \in Requests, Ask(n, q) PROVE TypeOK'
    BY <2>1 DEF Ask, tokenVars
  <2>2. CASE Drain(n)
    BY <2>2 DEF Drain, Serve, tokenVars, Statuses
  <2>3. CASE SetDisabled(n)
    <3>1. disabled' \in [Nodes -> BOOLEAN]
      BY <2>3 DEF SetDisabled
    <3>2. requests' \in [Nodes -> SUBSET Requests]
      BY <2>3 DEF SetDisabled, Serve
    <3>3. UNCHANGED <<tokenVars, status, age, credential, deleted, up, beats, sweep, bounds>>
      BY <2>3 DEF SetDisabled, Serve
    <3>. QED  BY <3>1, <3>2, <3>3 DEF tokenVars
  <2>4. CASE Remove(n)
    BY <2>4 DEF Remove, Serve, tokenVars, Statuses
  <2>. QED  BY <1>4, <2>1, <2>2, <2>3, <2>4 DEF Operator
<1>5. ASSUME NEW t \in Tokens, Expire(t) \/ Cleanup(t) PROVE TypeOK'
  BY <1>5 DEF Expire, Cleanup
<1>6. ASSUME NEW s \in Sweeps, Sweep(s) PROVE TypeOK'
  <2>1. CASE SweepRead(s)
    BY <2>1 DEF SweepRead, Verdict, tokenVars, Statuses
  <2>2. ASSUME NEW n \in Nodes, SweepWrite(s, n) PROVE TypeOK'
    BY <2>2 DEF SweepWrite, tokenVars, Statuses
  <2>3. CASE SweepDies(s)
    BY <2>3 DEF SweepDies, tokenVars, Fault
  <2>. QED  BY <1>6, <2>1, <2>2, <2>3 DEF Sweep
<1>7. CASE UNCHANGED vars
  BY <1>7 DEF vars, tokenVars
<1>. QED  BY <1>1, <1>2, <1>3, <1>4, <1>5, <1>6, <1>7 DEF Next

\* Only the steps of registrations and of tokens touch what TokenInv relates.
LEMMA TokenNext == TypeOK /\ TokenInv /\ [Next]_vars => TokenInv'
<1>. SUFFICES ASSUME TypeOK, TokenInv, [Next]_vars PROVE TokenInv'
  OBVIOUS
<1>. USE DEF TokenInv, Holds
<1>1. ASSUME NEW n \in Nodes, NEW t \in Tokens, RegisterCheck(n, t) PROVE TokenInv'
  <2>1. with' = [with EXCEPT ![n] = t] /\ reg' = [reg EXCEPT ![n] = "checked"]
        /\ UNCHANGED token /\ raced \subseteq raced'
    BY <1>1 DEF RegisterCheck
  <2>2. \A m \in Nodes \ {n} : Holds(m) /\ with[m] = t => t \in raced'
    BY <1>1 DEF RegisterCheck
  <2>. QED  BY <2>1, <2>2 DEF TypeOK
<1>2. ASSUME NEW n \in Nodes, RegisterCommit(n) PROVE TokenInv'
  <2>1. UNCHANGED <<with, raced>>
    BY <1>2 DEF RegisterCommit
  <2>2. \A m \in Nodes : Holds(m)' => Holds(m)
    BY <1>2 DEF RegisterCommit, TypeOK
  <2>3. \A m \in Nodes : reg'[m] = "registered" => token'[with[m]] \in {"used", "purged"}
    BY <1>2 DEF RegisterCommit, TypeOK
  <2>. QED  BY <2>1, <2>2, <2>3
<1>3. ASSUME NEW n \in Nodes, RegisterFails(n) PROVE TokenInv'
  BY <1>3 DEF RegisterFails, TypeOK
<1>4. ASSUME NEW t \in Tokens, Expire(t) \/ Cleanup(t) PROVE TokenInv'
  BY <1>4 DEF Expire, Cleanup, TypeOK
<1>5. CASE UNCHANGED tokenVars
  BY <1>5 DEF tokenVars
<1>6. ASSUME NEW n \in Nodes, Agent(n) \/ Age(n) \/ Operator(n) PROVE UNCHANGED tokenVars
  BY <1>6 DEF Agent, AgentStarts, AgentStops, Heartbeat, HeartbeatAgain, BeginBeat, ApplyBeat,
     BeatFails, Age, Operator, Drain, SetDisabled, Remove, Ask, Serve
<1>7. ASSUME NEW s \in Sweeps, Sweep(s) PROVE UNCHANGED tokenVars
  BY <1>7 DEF Sweep, SweepRead, SweepWrite, SweepDies
<1>. QED
  BY <1>1, <1>2, <1>3, <1>4, <1>5, <1>6, <1>7 DEF Next, Registration, vars

\* The row of a node is written by those who found it.
LEMMA RowNext == TypeOK /\ RowInv /\ [Next]_vars => RowInv'
<1>. SUFFICES ASSUME TypeOK, RowInv, [Next]_vars PROVE RowInv'
  OBVIOUS
<1>. USE DEF RowInv, Exists
<1>1. ASSUME NEW n \in Nodes, Registration(n) PROVE RowInv'
  BY <1>1 DEF Registration, RegisterCheck, RegisterCommit, RegisterFails, nodeVars, TypeOK
<1>2. ASSUME NEW n \in Nodes, Agent(n) PROVE RowInv'
  <2>1. CASE AgentStarts(n) \/ AgentStops(n)
    BY <2>1 DEF AgentStarts, AgentStops, tokenVars, nodeVars
  <2>2. CASE Heartbeat(n) \/ HeartbeatAgain(n)
    BY <2>2 DEF Heartbeat, HeartbeatAgain, BeginBeat, Authentic, tokenVars, nodeVars, TypeOK
  <2>3. CASE ApplyBeat(n) \/ BeatFails(n)
    BY <2>3 DEF ApplyBeat, BeatFails, tokenVars, nodeVars, TypeOK
  <2>. QED  BY <1>2, <2>1, <2>2, <2>3 DEF Agent
<1>3. ASSUME NEW n \in Nodes, Age(n) PROVE RowInv'
  BY <1>3 DEF Age, tokenVars
<1>4. ASSUME NEW n \in Nodes, Operator(n) PROVE RowInv'
  <2>1. ASSUME NEW q \in Requests, Ask(n, q) PROVE RowInv'
    BY <2>1 DEF Ask, tokenVars, nodeVars, TypeOK
  <2>2. CASE Drain(n) \/ SetDisabled(n) \/ Remove(n)
    BY <2>2 DEF Drain, SetDisabled, Remove, Serve, tokenVars, TypeOK
  <2>. QED  BY <1>4, <2>1, <2>2 DEF Operator
<1>5. ASSUME NEW t \in Tokens, Expire(t) \/ Cleanup(t) PROVE RowInv'
  BY <1>5 DEF Expire, Cleanup, nodeVars
<1>6. ASSUME NEW s \in Sweeps, Sweep(s) PROVE RowInv'
  <2>1. CASE SweepRead(s)
    BY <2>1 DEF SweepRead, tokenVars, nodeVars, TypeOK
  <2>2. ASSUME NEW n \in Nodes, SweepWrite(s, n) PROVE RowInv'
    BY <2>2 DEF SweepWrite, tokenVars, TypeOK
  <2>3. CASE SweepDies(s)
    BY <2>3 DEF SweepDies, tokenVars, nodeVars, TypeOK
  <2>. QED  BY <1>6, <2>1, <2>2, <2>3 DEF Sweep
<1>7. CASE UNCHANGED vars
  BY <1>7 DEF vars, tokenVars, nodeVars
<1>. QED  BY <1>1, <1>2, <1>3, <1>4, <1>5, <1>6, <1>7 DEF Next

-----------------------------------------------------------------------------
\* The inductive invariant always holds.
THEOREM Inductive == Spec => []IInv
<1>1. IInv /\ [Next]_vars => IInv'
  BY TypeNext, TokenNext, RowNext DEF IInv
<1>. QED  BY InitInv, <1>1, PTL DEF Spec

\* The rows and processes of the nodes keep their types.
THEOREM TypeCorrect == Spec => []TypeOK
<1>1. IInv => TypeOK
  BY DEF IInv
<1>. QED  BY Inductive, <1>1, PTL

\* A join token admits one node, unless registrations raced for it.
THEOREM OneNodePerToken == Spec => []TokenAdmitsOne
<1>1. IInv => TokenAdmitsOne
  BY DEF IInv, TokenInv, Holds, TokenAdmitsOne
<1>. QED  BY Inductive, <1>1, PTL

\* A removed node that nobody holds in hand any more is left as it is for ever.
THEOREM RemovalIsFinal == Spec => RemovedStaysGone
<1>1. IInv /\ [Next]_vars =>
         [\A n \in Nodes : Gone(n) => Gone(n)' /\ status'[n] = status[n]]_vars
  <2>. SUFFICES ASSUME IInv, Next, NEW n \in Nodes, Gone(n)
                PROVE  Gone(n)' /\ status'[n] = status[n]
    OBVIOUS
  <2>. USE DEF IInv, TypeOK, RowInv, Gone, Exists
  <2>0. reg[n] = "registered" /\ ~credential[n]
    OBVIOUS
  <2>1. ASSUME NEW m \in Nodes, Registration(m) PROVE Gone(n)' /\ status'[n] = status[n]
    BY <2>0, <2>1 DEF Registration, RegisterCheck, RegisterCommit, RegisterFails, nodeVars
  <2>2. ASSUME NEW m \in Nodes, Agent(m) PROVE Gone(n)' /\ status'[n] = status[n]
    BY <2>0, <2>2 DEF Agent, AgentStarts, AgentStops, Heartbeat, HeartbeatAgain, BeginBeat,
       Authentic, ApplyBeat, BeatFails, nodeVars
  <2>3. ASSUME NEW m \in Nodes, Age(m) PROVE Gone(n)' /\ status'[n] = status[n]
    BY <2>3 DEF Age
  <2>4. ASSUME NEW m \in Nodes, Operator(m) PROVE Gone(n)' /\ status'[n] = status[n]
    BY <2>4 DEF Operator, Ask, Drain, SetDisabled, Remove, Serve, nodeVars
  <2>5. ASSUME NEW t \in Tokens, Expire(t) \/ Cleanup(t)
        PROVE  Gone(n)' /\ status'[n] = status[n]
    BY <2>5 DEF Expire, Cleanup, nodeVars
  <2>6. ASSUME NEW s \in Sweeps, Sweep(s) PROVE Gone(n)' /\ status'[n] = status[n]
    BY <2>6 DEF Sweep, SweepRead, SweepWrite, SweepDies, nodeVars
  <2>. QED  BY <2>1, <2>2, <2>3, <2>4, <2>5, <2>6 DEF Next
<1>. QED  BY Inductive, <1>1, PTL DEF Spec, RemovedStaysGone

=============================================================================
