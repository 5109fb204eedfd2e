--------------------------- MODULE TimelockProofs ---------------------------
(***************************************************************************)
(* The timelock's promises, for any set of calls, roles and delays.        *)
(***************************************************************************)
EXTENDS Timelock, TLAPS

(* The delay a call is given is one of the delays in bounds.               *)
LEMMA DelayGiven ==
    ASSUME TypeOK, NEW k \in Keys
    PROVE  EffectiveDelay(k) \in MinDelay .. MaxDelay
BY DEF TypeOK, EffectiveDelay

(* What a pending operation is made of.                                    *)
LEMMA PendingOp ==
    ASSUME IInv, NEW id \in Ids, ops[id] # None
    PROVE  /\ ops[id] \in OpType
           /\ born[id] \in BirthType
           /\ ops[id].eta = born[id].at + born[id].delay
           /\ ops[id].expires = ops[id].eta + ExecutionGrace
           /\ id \notin ended.cancelled
           /\ \A r \in ended.ran : r[1] # id
           /\ id < nextId
BY TimelockAssumption DEF IInv, TypeOK, PendingIsFresh, Ids

LEMMA InitInvariant == Init => IInv
<1> SUFFICES ASSUME Init PROVE IInv
  OBVIOUS
<1>1. TypeOK
  BY TimelockAssumption
     DEF Init, TypeOK, GovernedType, BirthType, DelayInBounds, Ids
<1>2. PendingIsFresh /\ WaitsWhatItWasGiven /\ RunsAtMostOnce
  BY DEF Init, PendingIsFresh, WaitsWhatItWasGiven, RunsAtMostOnce
<1> QED BY <1>1, <1>2 DEF IInv

LEMMA ScheduleInvariant ==
    ASSUME IInv, NEW by \in Addrs, NEW call \in Calls, Schedule(by, call)
    PROVE  IInv'
<1> DEFINE delay == EffectiveDelay(<<call.target, call.fn>>)
           op == [call |-> call, eta |-> now + delay,
                  expires |-> now + delay + ExecutionGrace]
<1>1. call \in CallType /\ <<call.target, call.fn>> \in Keys
  BY TimelockAssumption DEF CallType, Keys
<1>2. delay \in MinDelay .. MaxDelay /\ delay \in Nat
  BY <1>1, DelayGiven, TimelockAssumption DEF IInv
<1>3. nextId \in Ids /\ nextId' = nextId + 1 /\ nextId \in Nat
  BY TimelockAssumption DEF Schedule, IInv, TypeOK, Ids
<1>4. /\ ops' = [ops EXCEPT ![nextId] = op]
      /\ born' = [born EXCEPT ![nextId] = [at |-> now, delay |-> delay]]
      /\ ended' = ended
  BY DEF Schedule
<1> HIDE DEF delay
<1>5. op \in OpType /\ [at |-> now, delay |-> delay] \in BirthType
  BY <1>1, <1>2, TimelockAssumption DEF OpType, BirthType, IInv, TypeOK
<1> HIDE DEF op
<1>6. TypeOK'
  <2>1. ops' \in [Ids -> OpType \cup {None}]
    BY <1>3, <1>4, <1>5 DEF IInv, TypeOK
  <2>2. born' \in [Ids -> BirthType \cup {None}]
    BY <1>3, <1>4, <1>5 DEF IInv, TypeOK
  <2>3. nextId' \in 0 .. MaxOps
    BY <1>3, TimelockAssumption DEF Ids
  <2> QED BY <2>1, <2>2, <2>3, <1>4
          DEF IInv, TypeOK, Schedule, authority, delays
<1>7. /\ nextId \notin ended.cancelled
      /\ \A r \in ended.ran : r[1] # nextId
  BY <1>3 DEF IInv, PendingIsFresh
<1>8. /\ ops'[nextId] = op /\ op \in OpType
      /\ born'[nextId] = [at |-> now, delay |-> delay]
      /\ \A id \in Ids : id # nextId => ops'[id] = ops[id] /\ born'[id] = born[id]
  BY <1>3, <1>4, <1>5 DEF IInv, TypeOK
<1>9. PendingIsFresh'
  <2> SUFFICES ASSUME NEW id \in Ids
               PROVE  /\ ops'[id] # None =>
                             /\ born'[id] # None
                             /\ ops'[id].eta = born'[id].at + born'[id].delay
                             /\ ops'[id].expires
                                    = ops'[id].eta + ExecutionGrace
                             /\ id \notin ended.cancelled
                             /\ \A r \in ended.ran : r[1] # id
                      /\ id >= nextId' =>
                             /\ ops'[id] = None
                             /\ id \notin ended.cancelled
                             /\ \A r \in ended.ran : r[1] # id
    BY <1>4 DEF PendingIsFresh
  <2>1. CASE id = nextId
    <3>1. op.eta = now + delay /\ op.expires = op.eta + ExecutionGrace
      BY DEF op
    <3>2. born'[id] # None
      BY <2>1, <1>5, <1>8, TimelockAssumption
    <3> QED BY <2>1, <1>3, <1>7, <1>8, <3>1, <3>2
  <2>2. CASE id # nextId
    BY <2>2, <1>3, <1>8 DEF IInv, PendingIsFresh, Ids
  <2> QED BY <2>1, <2>2
<1>10. WaitsWhatItWasGiven'
  BY <1>4, <1>7, <1>8 DEF IInv, TypeOK, WaitsWhatItWasGiven
<1>11. RunsAtMostOnce'
  BY <1>4 DEF IInv, RunsAtMostOnce
<1> QED BY <1>6, <1>9, <1>10, <1>11 DEF IInv

(* A step that ends the operation id: it leaves storage, and what the      *)
(* history says of the other operations stays as it was.                   *)
LEMMA EndingInvariant ==
    ASSUME IInv, NEW id \in Ids, ops[id] # None, Removed(id),
           UNCHANGED <<now, nextId, born>>,
           \/ /\ ended' = [ended EXCEPT !.ran = @ \cup {<<id, now>>}]
              /\ Due(id)
           \/ ended' = [ended EXCEPT !.cancelled = @ \cup {id}]
    PROVE  /\ ops' \in [Ids -> OpType \cup {None}]
           /\ ended' \in [ran : SUBSET (Ids \X Nat), cancelled : SUBSET Ids]
           /\ PendingIsFresh' /\ WaitsWhatItWasGiven' /\ RunsAtMostOnce'
<1>1. /\ ops' = [ops EXCEPT ![id] = None]
      /\ ops \in [Ids -> OpType \cup {None}]
      /\ ended \in [ran : SUBSET (Ids \X Nat), cancelled : SUBSET Ids]
      /\ now \in Nat /\ ended' = [ran |-> ended'.ran, cancelled |-> ended'.cancelled]
  BY TimelockAssumption DEF Removed, IInv, TypeOK
<1>2. /\ ended'.ran = ended.ran \/ ended'.ran = ended.ran \cup {<<id, now>>}
      /\ ended'.cancelled = ended.cancelled
            \/ ended'.cancelled = ended.cancelled \cup {id}
      /\ ended'.ran = ended.ran \/ ended'.cancelled = ended.cancelled
  BY <1>1
<1>3. /\ \A i \in Ids : i # id => ops'[i] = ops[i]
      /\ ops'[id] = None
  BY <1>1
<1>4. ended' \in [ran : SUBSET (Ids \X Nat), cancelled : SUBSET Ids]
  BY <1>1
<1>5. PendingIsFresh'
  <2> SUFFICES ASSUME NEW i \in Ids
               PROVE  /\ ops'[i] # None =>
                             /\ born[i] # None
                             /\ ops'[i].eta = born[i].at + born[i].delay
                             /\ ops'[i].expires
                                    = ops'[i].eta + ExecutionGrace
                             /\ i \notin ended'.cancelled
                             /\ \A r \in ended'.ran : r[1] # i
                      /\ i >= nextId =>
                             /\ ops'[i] = None
                             /\ i \notin ended'.cancelled
                             /\ \A r \in ended'.ran : r[1] # i
    BY DEF PendingIsFresh
  <2>1. CASE i = id
    <3>1. id < nextId
      BY PendingOp
    <3>2. id \in Int /\ nextId \in Int
      BY TimelockAssumption DEF IInv, TypeOK, Ids
    <3> QED BY <1>3, <2>1, <3>1, <3>2
  <2>2. CASE i # id
    BY <2>2, <1>2, <1>3 DEF IInv, PendingIsFresh
  <2> QED BY <2>1, <2>2
<1>6. WaitsWhatItWasGiven'
  <2> SUFFICES ASSUME NEW r \in ended'.ran
               PROVE  /\ born[r[1]] # None
                      /\ r[2] \in born[r[1]].at + born[r[1]].delay ..
                             born[r[1]].at + born[r[1]].delay + ExecutionGrace
    BY DEF WaitsWhatItWasGiven
  <2>1. CASE r \in ended.ran
    BY <2>1 DEF IInv, WaitsWhatItWasGiven
  <2>2. CASE r \notin ended.ran
    <3>1. r = <<id, now>> /\ Due(id)
      BY <2>2, <1>1
    <3>2. /\ now >= born[id].at + born[id].delay
          /\ now <= born[id].at + born[id].delay + ExecutionGrace
          /\ born[id] \in BirthType
      BY <3>1, PendingOp DEF Due
    <3> QED BY <3>1, <3>2, <1>1, TimelockAssumption DEF BirthType
  <2> QED BY <2>1, <2>2
<1>7. RunsAtMostOnce'
  <2>1. \A r \in ended.ran : r[1] # id
    BY PendingOp
  <2>2. id \notin ended.cancelled
    BY PendingOp
  <2> SUFFICES ASSUME NEW i \in Ids
               PROVE  /\ \A r1, r2 \in {r \in ended'.ran : r[1] = i} : r1 = r2
                      /\ i \in ended'.cancelled =>
                             {r \in ended'.ran : r[1] = i} = {}
    BY DEF RunsAtMostOnce
  <2>3. CASE i = id
    BY <2>1, <2>2, <2>3, <1>2
  <2>4. CASE i # id
    <3>1. {r \in ended'.ran : r[1] = i} = {r \in ended.ran : r[1] = i}
      BY <2>4, <1>2
    <3>2. i \in ended'.cancelled => i \in ended.cancelled
      BY <2>4, <1>2
    <3> QED BY <3>1, <3>2 DEF IInv, RunsAtMostOnce
  <2> QED BY <2>3, <2>4
<1> QED BY <1>1, <1>4, <1>5, <1>6, <1>7

(* What the target of a call is left with.                                 *)
LEMMA InvokeType ==
    ASSUME IInv, NEW call \in CallType, Invoke(call)
    PROVE  governed' \in [Targets -> GovernedType]
<1>1. call.target \in Targets /\ governed[call.target] \in GovernedType
  BY DEF Invoke, IInv, TypeOK
<1>2. Applied(governed[call.target], call) \in GovernedType
  <2> DEFINE g == governed[call.target]
  <2>1. CASE call.fn = "set_paused"
    <3>1. (call.arg = 1) \in BOOLEAN
      OBVIOUS
    <3>2. Applied(g, call) = [g EXCEPT !.paused = call.arg = 1]
      BY <2>1 DEF Applied
    <3> QED BY <1>1, <3>1, <3>2 DEF GovernedType
  <2>2. CASE call.fn # "set_paused"
    BY <1>1, <2>2 DEF Applied, GovernedType, CallType
  <2> QED BY <2>1, <2>2
<1> QED BY <1>1, <1>2 DEF Invoke, IInv, TypeOK

LEMMA ExecuteInvariant ==
    ASSUME IInv, NEW by \in Addrs, NEW id \in Ids, Execute(by, id)
    PROVE  IInv'
<1>1. ops[id] # None /\ Removed(id) /\ Due(id)
      /\ ended' = [ended EXCEPT !.ran = @ \cup {<<id, now>>}]
      /\ UNCHANGED <<now, nextId, born, admin, pendingAdmin, roles, override>>
  BY DEF Execute, authority
<1>2. ops[id].call \in CallType
  BY <1>1, PendingOp DEF OpType
<1>3. floor' \in MinDelay .. MaxDelay
  BY DEF Execute, ApplyDefaultDelay, DelayInBounds, IInv, TypeOK
<1>4. governed' \in [Targets -> GovernedType]
  BY <1>2, InvokeType DEF Execute, IInv, TypeOK
<1>5. /\ ops' \in [Ids -> OpType \cup {None}]
      /\ ended' \in [ran : SUBSET (Ids \X Nat), cancelled : SUBSET Ids]
      /\ PendingIsFresh' /\ WaitsWhatItWasGiven' /\ RunsAtMostOnce'
  BY <1>1, EndingInvariant
<1> QED BY <1>1, <1>3, <1>4, <1>5 DEF IInv, TypeOK

LEMMA CancelInvariant ==
    ASSUME IInv, NEW by \in Addrs, NEW id \in Ids, Cancel(by, id)
    PROVE  IInv'
<1>1. ops[id] # None /\ Removed(id)
      /\ ended' = [ended EXCEPT !.cancelled = @ \cup {id}]
      /\ UNCHANGED <<now, nextId, born, admin, pendingAdmin, roles, floor,
                     override, governed>>
  BY DEF Cancel, authority, delays
<1>2. /\ ops' \in [Ids -> OpType \cup {None}]
      /\ ended' \in [ran : SUBSET (Ids \X Nat), cancelled : SUBSET Ids]
      /\ PendingIsFresh' /\ WaitsWhatItWasGiven' /\ RunsAtMostOnce'
  BY <1>1, EndingInvariant
<1> QED BY <1>1, <1>2 DEF IInv, TypeOK

(* The operations that leave the operations and their history alone.       *)
LEMMA OthersInvariant ==
    ASSUME IInv, TypeOK', UNCHANGED <<nextId, ops, history>>
    PROVE  IInv'
BY DEF IInv, history, PendingIsFresh, WaitsWhatItWasGiven, RunsAtMostOnce

LEMMA NextInvariant == IInv /\ [Next]_vars => IInv'
<1> SUFFICES ASSUME IInv, [Next]_vars PROVE IInv'
  OBVIOUS
<1> USE DEF authority, delays, history
<1>1. ASSUME NEW by \in Addrs, NEW c \in Calls, Schedule(by, c) PROVE IInv'
  BY <1>1, ScheduleInvariant
<1>2. ASSUME NEW by \in Addrs, NEW c \in Calls, Emergency(by, c) PROVE IInv'
  <2>1. governed' \in [Targets -> GovernedType]
    BY <1>2, InvokeType, TimelockAssumption DEF Emergency
  <2>2. TypeOK' /\ UNCHANGED <<nextId, ops, history>>
    BY <1>2, <2>1 DEF Emergency, IInv, TypeOK
  <2> QED BY <2>2, OthersInvariant
<1>3. ASSUME NEW by \in Addrs, NEW id \in Ids, Execute(by, id) PROVE IInv'
  BY <1>3, ExecuteInvariant
<1>4. ASSUME NEW by \in Addrs, NEW id \in Ids, Cancel(by, id) PROVE IInv'
  BY <1>4, CancelInvariant
<1>5. ASSUME NEW by \in Addrs, NEW r \in RoleChoices, SetRoles(by, r)
      PROVE  IInv'
  <2>1. TypeOK' /\ UNCHANGED <<nextId, ops, history>>
    BY <1>5, TimelockAssumption DEF SetRoles, IInv, TypeOK
  <2> QED BY <2>1, OthersInvariant
<1>6. ASSUME NEW by \in Addrs, NEW k \in DelayKeys,
             NEW d \in DelayChoices \cup {None}, SetDelay(by, k, d)
      PROVE  IInv'
  <2>1. override' \in [Keys -> (MinDelay .. MaxDelay) \cup {None}]
    BY <1>6, TimelockAssumption DEF SetDelay, DelayInBounds, IInv, TypeOK
  <2>2. TypeOK' /\ UNCHANGED <<nextId, ops, history>>
    BY <1>6, <2>1 DEF SetDelay, IInv, TypeOK
  <2> QED BY <2>2, OthersInvariant
<1>7. ASSUME NEW by \in Addrs, NEW d \in DelayChoices, SetDefaultDelay(by, d)
      PROVE  IInv'
  <2>1. TypeOK' /\ UNCHANGED <<nextId, ops, history>>
    BY <1>7 DEF SetDefaultDelay, ApplyDefaultDelay, DelayInBounds, IInv, TypeOK
  <2> QED BY <2>1, OthersInvariant
<1>8. ASSUME NEW by \in Addrs, NEW a \in NewAdmins, ProposeAdmin(by, a)
      PROVE  IInv'
  <2>1. TypeOK' /\ UNCHANGED <<nextId, ops, history>>
    BY <1>8, TimelockAssumption DEF ProposeAdmin, IInv, TypeOK
  <2> QED BY <2>1, OthersInvariant
<1>9. ASSUME NEW by \in Addrs, AcceptAdmin(by) \/ CancelAdminTransfer(by)
      PROVE  IInv'
  <2>1. TypeOK' /\ UNCHANGED <<nextId, ops, history>>
    BY <1>9 DEF AcceptAdmin, CancelAdminTransfer, IInv, TypeOK
  <2> QED BY <2>1, OthersInvariant
<1>10. CASE Tick
  <2>1. TypeOK' /\ UNCHANGED <<nextId, ops, history>>
    BY <1>10, TimelockAssumption DEF Tick, IInv, TypeOK
  <2> QED BY <2>1, OthersInvariant
<1>11. CASE UNCHANGED vars
  <2>1. TypeOK' /\ UNCHANGED <<nextId, ops, history>>
    BY <1>11 DEF vars, IInv, TypeOK
  <2> QED BY <2>1, OthersInvariant
<1> QED BY <1>1, <1>2, <1>3, <1>4, <1>5, <1>6, <1>7, <1>8, <1>9, <1>10, <1>11
        DEF Next

(* The inductive invariant holds of every reachable state.                 *)
THEOREM Invariance == Spec => []IInv
<1>1. Init => IInv
  BY InitInvariant
<1>2. IInv /\ [Next]_vars => IInv'
  BY NextInvariant
<1> QED BY <1>1, <1>2, PTL DEF Spec

(* Storage entries keep their types, and every delay its bounds.           *)
THEOREM TypeCorrect == Spec => []TypeOK
<1>1. IInv => TypeOK
  BY DEF IInv
<1> QED BY <1>1, Invariance, PTL

(* No operation runs before the delay it was given, or after its grace     *)
(* period, whatever happens to floor and overrides meanwhile.              *)
THEOREM DelaysAreFrozen == Spec => []WaitsWhatItWasGiven
<1>1. IInv => WaitsWhatItWasGiven
  BY DEF IInv
<1> QED BY <1>1, Invariance, PTL

(* No operation runs twice, nor after it was cancelled.                    *)
THEOREM ReplaySafe == Spec => []RunsAtMostOnce
<1>1. IInv => RunsAtMostOnce
  BY DEF IInv
<1> QED BY <1>1, Invariance, PTL

(* An operation that runs was announced at least MIN_DELAY ago.            *)
LEMMA ExecuteIsAnnounced ==
    ASSUME IInv, NEW by \in Addrs, NEW id \in Ids, Execute(by, id)
    PROVE  Announced(ops[id].call.target)
<1>1. ops[id] # None /\ Removed(id) /\ Due(id)
  BY DEF Execute
<1>2. ops'[id] = None
  BY <1>1 DEF Removed, IInv, TypeOK
<1>3. now >= born[id].at + MinDelay
  BY <1>1, PendingOp, TimelockAssumption DEF Due, BirthType, IInv, TypeOK
<1> QED BY <1>1, <1>2, <1>3 DEF Announced

(* Nothing but a pause, or the cancelling of a proposal, reaches a         *)
(* governed contract unannounced, whoever holds the roles.                 *)
THEOREM EveryChangeIsAnnounced == Spec => AnnouncedFirst
<1> DEFINE OnlyBrakes(t) ==
              /\ governed'[t].setting = governed[t].setting
              /\ governed[t].paused => governed'[t].paused
              /\ governed'[t].proposal => governed[t].proposal
<1>1. ASSUME IInv, [Next]_vars, NEW t \in Targets
      PROVE  Announced(t) \/ OnlyBrakes(t)
  <2> USE <1>1 DEF authority, delays, history
  <2>1. ASSUME NEW by \in Addrs, NEW id \in Ids, Execute(by, id)
        PROVE  Announced(t) \/ OnlyBrakes(t)
    <3>1. CASE ops[id].call.target = t
      BY <2>1, <3>1, ExecuteIsAnnounced
    <3>2. CASE ops[id].call.target # t
      BY <2>1, <3>2 DEF Execute, Invoke, IInv, TypeOK
    <3> QED BY <3>1, <3>2
  <2>2. ASSUME NEW by \in Addrs, NEW c \in Calls, Emergency(by, c)
        PROVE  OnlyBrakes(t)
    <3>1. governed[t] \in GovernedType
      BY DEF IInv, TypeOK
    <3>2. \/ governed'[t] = governed[t]
          \/ governed'[t] = [governed[t] EXCEPT !.paused = TRUE]
          \/ governed'[t] = [governed[t] EXCEPT !.proposal = FALSE]
      BY <2>2 DEF Emergency, IsEmergencyAllowed, Invoke, Applied, IInv, TypeOK
    <3> QED BY <3>1, <3>2 DEF GovernedType
  <2>3. CASE UNCHANGED governed
    BY <2>3
  <2> QED BY <2>1, <2>2, <2>3
          DEF Next, vars, Schedule, Cancel, SetRoles, SetDelay, SetDefaultDelay,
              ProposeAdmin, AcceptAdmin, CancelAdminTransfer, Tick
<1>2. IInv /\ [Next]_vars =>
         \A t \in Targets :
            \/ Announced(t)
            \/ /\ governed'[t].setting = governed[t].setting
               /\ governed[t].paused => governed'[t].paused
               /\ governed'[t].proposal => governed[t].proposal
  BY <1>1
<1> QED BY <1>2, Invariance, PTL DEF Spec, AnnouncedFirst

(* The floor rises only by an announced self-call.                         *)
THEOREM FloorRaisesAreAnnounced == Spec => FloorRaiseAnnounced
<1>1. ASSUME IInv, [Next]_vars, floor' > floor
      PROVE  Announced(Self)
  <2> USE <1>1 DEF authority, delays, history
  <2>0. floor \in Nat
    BY TimelockAssumption DEF IInv, TypeOK
  <2>1. ASSUME NEW by \in Addrs, NEW id \in Ids, Execute(by, id)
        PROVE  Announced(Self)
    <3>1. ops[id].call.target = Self
      <4>1. floor' # floor
        BY <2>0
      <4> QED BY <4>1, <2>1 DEF Execute
    <3> QED BY <2>1, <3>1, ExecuteIsAnnounced
  <2>2. ASSUME NEW by \in Addrs, NEW d \in DelayChoices, SetDefaultDelay(by, d)
        PROVE  FALSE
    BY <2>0, <2>2, TimelockAssumption DEF SetDefaultDelay, ApplyDefaultDelay
  <2>3. CASE UNCHANGED floor
    BY <2>0, <2>3
  <2> QED BY <2>1, <2>2, <2>3
          DEF Next, vars, Schedule, Emergency, Cancel, SetRoles, SetDelay,
              ProposeAdmin, AcceptAdmin, CancelAdminTransfer, Tick
<1> QED BY <1>1, Invariance, PTL DEF Spec, FloorRaiseAnnounced
=============================================================================
