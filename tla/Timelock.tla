------------------------------ MODULE Timelock ------------------------------
(***************************************************************************)
(* contracts/timelock: the admin of the other contracts.  An admin call is *)
(* scheduled, waits, and is executed or cancelled; a short list of calls   *)
(* that reduce risk may skip the wait.                                     *)
(*                                                                         *)
(* Each entrypoint is one action, enabled when it returns Ok: an Err or a  *)
(* failing target rolls every write back, so execute() of an expired       *)
(* operation, which removes it and returns Err, changes nothing.  Of a     *)
(* governed contract only what a call may change is kept, in governed.     *)
(* Events and storage TTLs are left out.                                   *)
(***************************************************************************)
EXTENDS Integers, FiniteSets

CONSTANTS
    Addrs,          \* addresses that may hold a role
    Targets,        \* the contracts whose admin is the timelock
    Self,           \* the timelock's own address
    None,           \* an absent Option or storage entry
    Calls,          \* [target, fn, arg] that may be asked for
    NewAdmins,      \* the addresses an admin may propose
    RoleChoices,    \* the Roles an admin may set
    DelayChoices,   \* the delays an admin may ask for
    DelayKeys,      \* <<target, fn_name>> whose override an admin may set
    MinDelay, MaxDelay,     \* MIN_DELAY, MAX_DELAY
    ExecutionGrace,         \* EXECUTION_GRACE
    AdminTransferTtl,       \* ADMIN_TRANSFER_TTL
    MaxOps,         \* bound: operations ever scheduled
    MaxTime         \* bound: the last ledger timestamp

(* "configure" stands for every admin entrypoint that is not named here.   *)
Fns == {"set_paused", "cancel_proposal", "set_default_delay", "configure"}

(* arg is the value set_default_delay or configure sets; to set_paused 1   *)
(* is true and 0 is false.                                                 *)
CallType == [target : Targets \cup {Self}, fn : Fns, arg : Nat]

RolesType ==
    [proposer : Addrs, canceller : Addrs,
     executor : Addrs \cup {None}, emergency : Addrs \cup {None}]

OpType == [call : CallType, eta : Nat, expires : Nat]
BirthType == [at : Nat, delay : MinDelay .. MaxDelay]

Ids == 0 .. MaxOps - 1
Keys == (Targets \cup {Self}) \X Fns

ASSUME TimelockAssumption ==
    /\ MinDelay \in Nat \ {0} /\ MaxDelay \in Nat /\ MinDelay <= MaxDelay
    /\ ExecutionGrace \in Nat /\ AdminTransferTtl \in Nat
    /\ MaxOps \in Nat /\ MaxTime \in Nat
    /\ Calls \subseteq CallType /\ RoleChoices \subseteq RolesType
    /\ NewAdmins \subseteq Addrs
    /\ DelayChoices \subseteq Nat /\ DelayKeys \subseteq Keys
    /\ Self \notin Targets
    /\ None \notin Addrs \cup Nat \cup OpType \cup BirthType
    /\ None \notin [to : NewAdmins, until : Nat]

VARIABLES
    now,            \* ledger timestamp
    admin,          \* Admin
    pendingAdmin,   \* PendingAdmin and PendingAdminAt
    roles,          \* Roles
    floor,          \* DefaultDelay
    override,       \* Delay(target, fn_name)
    nextId,         \* NextId
    ops,            \* Op(id)
    governed,       \* external: the state of each governed contract
    born,           \* history: when and with which delay an id was scheduled
    ended           \* history: when each id ran, and which were cancelled

authority == <<admin, pendingAdmin, roles>>
delays == <<floor, override>>
history == <<born, ended>>
vars == <<now, authority, delays, nextId, ops, governed, history>>

-----------------------------------------------------------------------------
(* effective_delay()                                                       *)
EffectiveDelay(k) ==
    IF override[k] # None /\ override[k] > floor THEN override[k] ELSE floor

(* check_delay_bounds()                                                    *)
DelayInBounds(d) == d \in MinDelay .. MaxDelay

Schedule(by, call) ==
    LET delay == EffectiveDelay(<<call.target, call.fn>>)
        eta   == now + delay
    IN  /\ by = roles.proposer
        /\ nextId < MaxOps
        /\ nextId' = nextId + 1
        /\ ops' = [ops EXCEPT ![nextId] =
              [call |-> call, eta |-> eta, expires |-> eta + ExecutionGrace]]
        /\ born' = [born EXCEPT ![nextId] = [at |-> now, delay |-> delay]]
        /\ UNCHANGED <<now, authority, delays, governed, ended>>

(* A governed contract applies the call, unless it fails.                  *)
Applied(g, call) ==
    CASE call.fn = "set_paused"      -> [g EXCEPT !.paused = call.arg = 1]
      [] call.fn = "cancel_proposal" -> [g EXCEPT !.proposal = FALSE]
      [] OTHER                       -> [g EXCEPT !.setting = call.arg]

Invoke(call) ==
    /\ call.target \in Targets
    /\ governed' = [governed EXCEPT ![call.target] = Applied(@, call)]

(* apply_default_delay(): the admin alone may only lower the floor.        *)
ApplyDefaultDelay(by, delay, scheduled) ==
    /\ DelayInBounds(delay)
    /\ ~scheduled => delay <= floor /\ by = admin
    /\ floor' = delay

(* Mutant: the delay of the moment decides.                                *)
DueByCurrentDelay(id) ==
    /\ now >= born[id].at
                + EffectiveDelay(<<ops[id].call.target, ops[id].call.fn>>)
    /\ now <= ops[id].expires

Due(id) == now >= ops[id].eta /\ now <= ops[id].expires

Removed(id) == ops' = [ops EXCEPT ![id] = None]

Execute(by, id) ==
    LET call == ops[id].call IN
    /\ ops[id] # None
    /\ roles.executor # None => by = roles.executor
    /\ Due(id)
    /\ Removed(id)
    /\ \/ /\ call.target = Self /\ call.fn = "set_default_delay"
          /\ ApplyDefaultDelay(by, call.arg, TRUE)
          /\ UNCHANGED governed
       \/ Invoke(call) /\ UNCHANGED floor
    /\ ended' = [ended EXCEPT !.ran = @ \cup {<<id, now>>}]
    /\ UNCHANGED <<now, authority, override, nextId, born>>

Cancel(by, id) ==
    /\ ops[id] # None
    /\ by = roles.canceller
    /\ Removed(id)
    /\ ended' = [ended EXCEPT !.cancelled = @ \cup {id}]
    /\ UNCHANGED <<now, authority, delays, nextId, governed, born>>

(* Mutant: set_paused is allowed whatever its argument.                    *)
AnyPauseCall(call) == call.fn \in {"set_paused", "cancel_proposal"}

IsEmergencyAllowed(call) ==
    \/ call.fn = "set_paused" /\ call.arg = 1
    \/ call.fn = "cancel_proposal"

Emergency(by, call) ==
    /\ roles.emergency # None /\ by = roles.emergency
    /\ IsEmergencyAllowed(call)
    /\ Invoke(call)
    /\ UNCHANGED <<now, authority, delays, nextId, ops, history>>

-----------------------------------------------------------------------------
(* Configuration, and the two-step transfer of the admin.                  *)

SetRoles(by, r) ==
    /\ by = admin
    /\ roles' = r
    /\ UNCHANGED <<now, admin, pendingAdmin, delays, nextId, ops, governed,
                   history>>

SetDelay(by, k, d) ==
    /\ by = admin
    /\ d # None => DelayInBounds(d)
    /\ override' = [override EXCEPT ![k] = d]
    /\ UNCHANGED <<now, authority, floor, nextId, ops, governed, history>>

SetDefaultDelay(by, d) ==
    /\ ApplyDefaultDelay(by, d, FALSE)
    /\ UNCHANGED <<now, authority, override, nextId, ops, governed, history>>

ProposeAdmin(by, a) ==
    /\ by = admin
    /\ pendingAdmin' = [to |-> a, until |-> now + AdminTransferTtl]
    /\ UNCHANGED <<now, admin, roles, delays, nextId, ops, governed, history>>

(* pending_admin_entry(): there is one and it has not expired.             *)
PendingAdminLive == pendingAdmin # None /\ now <= pendingAdmin.until

AcceptAdmin(by) ==
    /\ PendingAdminLive
    /\ by = pendingAdmin.to
    /\ admin' = by
    /\ pendingAdmin' = None
    /\ UNCHANGED <<now, roles, delays, nextId, ops, governed, history>>

CancelAdminTransfer(by) ==
    /\ by = admin
    /\ PendingAdminLive
    /\ pendingAdmin' = None
    /\ UNCHANGED <<now, admin, roles, delays, nextId, ops, governed, history>>

(* The next ledger closes.                                                 *)
Tick ==
    /\ now < MaxTime
    /\ now' = now + 1
    /\ UNCHANGED <<authority, delays, nextId, ops, governed, history>>

-----------------------------------------------------------------------------
Init ==
    /\ now = 0
    /\ admin \in Addrs /\ pendingAdmin = None /\ roles \in RoleChoices
    /\ floor \in {d \in DelayChoices : DelayInBounds(d)}
    /\ override = [k \in Keys |-> None]
    /\ nextId = 0 /\ ops = [id \in Ids |-> None]
    /\ governed = [t \in Targets |->
                      [paused |-> FALSE, proposal |-> TRUE, setting |-> 0]]
    /\ born = [id \in Ids |-> None]
    /\ ended = [ran |-> {}, cancelled |-> {}]

Next ==
    \/ \E by \in Addrs, c \in Calls : Schedule(by, c) \/ Emergency(by, c)
    \/ \E by \in Addrs, id \in Ids : Execute(by, id) \/ Cancel(by, id)
    \/ \E by \in Addrs, r \in RoleChoices : SetRoles(by, r)
    \/ \E by \in Addrs, k \in DelayKeys, d \in DelayChoices \cup {None} :
           SetDelay(by, k, d)
    \/ \E by \in Addrs, d \in DelayChoices : SetDefaultDelay(by, d)
    \/ \E by \in Addrs, a \in NewAdmins : ProposeAdmin(by, a)
    \/ \E by \in Addrs : AcceptAdmin(by) \/ CancelAdminTransfer(by)
    \/ Tick

Spec == Init /\ [][Next]_vars

-----------------------------------------------------------------------------
(* Properties.                                                             *)

GovernedType == [paused : BOOLEAN, proposal : BOOLEAN, setting : Nat]

(* The shape of the storage entries; no delay in force is out of bounds    *)
(* (the header's "Bounded delay").                                         *)
TypeOK ==
    /\ now \in 0 .. MaxTime
    /\ admin \in Addrs
    /\ pendingAdmin \in [to : NewAdmins, until : Nat] \cup {None}
    /\ roles \in RolesType
    /\ floor \in MinDelay .. MaxDelay
    /\ override \in [Keys -> (MinDelay .. MaxDelay) \cup {None}]
    /\ nextId \in 0 .. MaxOps
    /\ ops \in [Ids -> OpType \cup {None}]
    /\ governed \in [Targets -> GovernedType]
    /\ born \in [Ids -> BirthType \cup {None}]
    /\ ended \in [ran : SUBSET (Ids \X Nat), cancelled : SUBSET Ids]

(* An operation for target t, scheduled MIN_DELAY ago or more, leaves      *)
(* storage in this step.                                                   *)
Announced(t) ==
    \E id \in Ids :
        /\ ops[id] # None /\ ops'[id] = None
        /\ ops[id].call.target = t
        /\ now >= born[id].at + MinDelay

(* ADR 0008: "every change is announced `MIN_DELAY` or more before it      *)
(* lands".  Whatever the admin does to roles and delays meanwhile, a       *)
(* governed contract is only ever paused, or its proposals cancelled,      *)
(* without notice; it is never unpaused or reconfigured so.                *)
AnnouncedFirst ==
    [][\A t \in Targets :
         \/ Announced(t)
         \/ /\ governed'[t].setting = governed[t].setting
            /\ governed[t].paused => governed'[t].paused
            /\ governed'[t].proposal => governed[t].proposal]_vars

(* "Raising the floor needs the timelock itself": the floor never rises    *)
(* but by a self-call that was announced.                                  *)
FloorRaiseAnnounced == [][floor' > floor => Announced(Self)]_vars

(* ADR 0008: "Delays for existing operations cannot be shortened", nor     *)
(* extended: an operation runs no sooner than the delay it was given after *)
(* it was scheduled and within the grace period, however floor and         *)
(* overrides move while it waits.                                          *)
WaitsWhatItWasGiven ==
    \A r \in ended.ran :
        LET id == r[1]
            due == born[id].at + born[id].delay
        IN  born[id] # None /\ r[2] \in due .. due + ExecutionGrace

(* "Replay-safe": an operation runs at most once, and never once it was    *)
(* cancelled.                                                              *)
RunsAtMostOnce ==
    \A id \in Ids :
        LET times == {r \in ended.ran : r[1] = id} IN
        /\ \A r1, r2 \in times : r1 = r2
        /\ id \in ended.cancelled => times = {}

-----------------------------------------------------------------------------
(* What makes them inductive: a pending operation has its history, and no  *)
(* end yet; nothing is recorded for an id that was not handed out.         *)
PendingIsFresh ==
    \A id \in Ids :
        /\ ops[id] # None =>
               /\ born[id] # None
               /\ ops[id].eta = born[id].at + born[id].delay
               /\ ops[id].expires = ops[id].eta + ExecutionGrace
               /\ id \notin ended.cancelled
               /\ \A r \in ended.ran : r[1] # id
        /\ id >= nextId =>
               /\ ops[id] = None
               /\ id \notin ended.cancelled
               /\ \A r \in ended.ran : r[1] # id

IInv == TypeOK /\ PendingIsFresh /\ WaitsWhatItWasGiven /\ RunsAtMostOnce
=============================================================================
