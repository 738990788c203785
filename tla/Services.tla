------------------------------ MODULE Services ------------------------------
(***************************************************************************)
(* Services and the fibers that depend on them (cordis.py).                *)
(*                                                                         *)
(* A service is provided under a key, in the realm the providing context   *)
(* resolves the key to; providers of one realm form a stack whose top is   *)
(* the value seen.  A fiber is a component with declared dependencies and  *)
(* provisions; providing and withdrawing a service activates and           *)
(* deactivates the fibers that depend on it, and a fiber that activates or *)
(* deactivates provides or withdraws services of its own, inside the same  *)
(* call.  frames is the stack of the calls that have not returned, the     *)
(* innermost last; the root context's next operation waits until it is     *)
(* empty.                                                                  *)
(***************************************************************************)
EXTENDS Naturals, Sequences, FiniteSets, SequencesExt, Ascending

CONSTANTS
    Fibers,     \* the fibers, in the order they were registered
    Needs,      \* [fiber -> the keys it depends on]
    Gives,      \* [fiber -> the keys its apply_fn provides, in order]
    Resolve,    \* [fiber or another context -> [key -> realm]]
    Providers,  \* [provider -> [by |-> a context, key |-> a key]]
    NoValue

Fiber == ToSet(Fibers)
Keys == UNION {DOMAIN Resolve[c] : c \in DOMAIN Resolve}
Realms == {Resolve[c][k] : c \in DOMAIN Resolve, k \in Keys}
Bindings == DOMAIN Providers \cup (Fiber \X Keys)

ASSUME ServicesAssumption ==
    /\ Fibers \in Seq(Fiber) /\ Fiber \subseteq DOMAIN Resolve
    /\ \A c \in DOMAIN Resolve : DOMAIN Resolve[c] = Keys
    /\ Needs \in [Fiber -> SUBSET Keys] /\ Gives \in [Fiber -> Seq(Keys)]
    /\ \A f \in Fiber : \A i, j \in DOMAIN Gives[f] : Gives[f][i] = Gives[f][j] => i = j
    /\ Providers \in [DOMAIN Providers -> [by : DOMAIN Resolve, key : Keys]]
    /\ DOMAIN Providers \cap (Fiber \X Keys) = {} /\ NoValue \notin Bindings

VARIABLES
    providers,  \* [realm -> the services provided in it, oldest first]
    store,      \* [realm -> the service whose value is seen]
    fiber_state,
    own,        \* [fiber -> the keys its active context provides]
    frames,
    retired,    \* the fibers marked retired, out of the registry
    broken,     \* the fibers whose apply_fn raises at its end
    live,       \* the providers whose dispose function is still armed
    revived,    \* history: the fibers that became active in this operation
    stale,      \* history: those whose dependencies had gone by then
    dropped     \* history: services of fibers that a withdrawal discarded

servicesVars == <<providers, store, fiber_state, own, frames, retired, broken, live,
                  revived, stale, dropped>>

Slots == DOMAIN Fibers
Frame ==
    [op : {"notify"}, key : Keys, withdrawn : BOOLEAN, due : SUBSET Slots]
    \cup [op : {"apply", "dispose"}, fiber : Fiber]
    \cup [op : {"order"}, key : Keys, by : DOMAIN Resolve, act : SUBSET Slots,
          visited : SUBSET Slots, path : Seq(Slots), order : Seq(Slots)]

ServicesTypeOK ==
    /\ providers \in [Realms -> Seq(Bindings)] /\ store \in [Realms -> Bindings \cup {NoValue}]
    /\ fiber_state \in [Fiber -> {"INACTIVE", "RELOADING", "ACTIVE", "UNLOADING", "FAILED"}]
    /\ own \in [Fiber -> Seq(Keys)] /\ frames \in Seq(Frame)
    /\ live \subseteq DOMAIN Providers /\ dropped \subseteq Fiber \X Keys
    /\ retired \subseteq Fiber /\ broken \subseteq Fiber /\ revived \subseteq Fiber /\ stale \subseteq Fiber

ServicesInit ==
    /\ providers = [r \in Realms |-> <<>>] /\ store = [r \in Realms |-> NoValue]
    /\ fiber_state = [f \in Fiber |-> "INACTIVE"] /\ own = [f \in Fiber |-> <<>>]
    /\ frames = <<>> /\ retired = {} /\ broken = {} /\ live = {}
    /\ revived = {} /\ stale = {} /\ dropped = {}

Satisfied(f) == \A k \in Needs[f] : store[Resolve[f][k]] # NoValue
Earliest(S) == CHOOSE i \in S : \A j \in S : i <= j
Dependents(ks) == {i \in Slots : Needs[Fibers[i]] \cap ks # {}}
But(s, x) == LET kept == InOrder({i \in DOMAIN s : s[i] # x})
             IN [i \in DOMAIN kept |-> s[kept[i]]]

-----------------------------------------------------------------------------
(* The calls.  Each operator below begins one, with outer the frames of the *)
(* calls it is made from.                                                   *)
Notify(key, withdrawn) ==
    [op |-> "notify", key |-> key, withdrawn |-> withdrawn, due |-> Dependents({key})]

\* the forward half of provide
Push(key, by, uid, outer) ==
    /\ providers' = [providers EXCEPT ![Resolve[by][key]] = Append(@, uid)]
    /\ store' = [store EXCEPT ![Resolve[by][key]] = uid]
    /\ dropped' = dropped \ {uid}
    /\ frames' = Append(outer, Notify(key, FALSE))

ActiveSlots == {i \in Slots : Fibers[i] \notin retired /\ fiber_state[Fibers[i]] = "ACTIVE"}
Withdrawal(key, by) ==
    [op |-> "order", key |-> key, by |-> by, act |-> ActiveSlots, visited |-> {}, path |-> <<>>, order |-> <<>>]

\* Mutant of Pull: the service is dropped before its dependents are deactivated
PullDropsFirst(key, by, uid, outer) ==
    LET rest == But(providers[Resolve[by][key]], uid)
    IN /\ providers' = [providers EXCEPT ![Resolve[by][key]] = rest]
       /\ store' = [store EXCEPT ![Resolve[by][key]] = IF rest = <<>> THEN NoValue ELSE Last(rest)]
       /\ frames' = Append(outer, IF rest = <<>> THEN Withdrawal(key, by) ELSE Notify(key, FALSE))

\* the inverse of provide: back to the provider below, or, without one, the
\* dependents are put in order, to be deactivated before the service goes
Pull(key, by, uid, outer) ==
    LET rest == But(providers[Resolve[by][key]], uid)
    IN /\ providers' = [providers EXCEPT ![Resolve[by][key]] = rest]
       /\ IF rest = <<>> THEN store' = store /\ frames' = Append(outer, Withdrawal(key, by))
          ELSE /\ store' = [store EXCEPT ![Resolve[by][key]] = Last(rest)]
               /\ frames' = Append(outer, Notify(key, FALSE))

\* activate: apply_fn starts
Activate(f, outer) ==
    IF fiber_state[f] = "ACTIVE" \/ f \in retired \/ ~Satisfied(f)
    THEN fiber_state' = fiber_state /\ frames' = outer
    ELSE /\ fiber_state' = [fiber_state EXCEPT ![f] = "RELOADING"]
         /\ frames' = Append(outer, [op |-> "apply", fiber |-> f])

\* deactivate: nothing to do when inactive or unloading already
Deactivate(f, outer) ==
    IF fiber_state[f] \in {"INACTIVE", "UNLOADING"}
    THEN fiber_state' = fiber_state /\ frames' = outer
    ELSE /\ fiber_state' = [fiber_state EXCEPT ![f] = "UNLOADING"]
         /\ frames' = Append(outer, [op |-> "dispose", fiber |-> f])

-----------------------------------------------------------------------------
(* The operations of the root context *)

Idle == frames = <<>> /\ revived' = {} /\ stale' = stale

\* ctx.provide, by the root context or an isolated one
Provide(p) ==
    /\ Idle /\ p \notin live /\ live' = live \cup {p}
    /\ Push(Providers[p].key, Providers[p].by, p, <<>>)
    /\ UNCHANGED <<fiber_state, own, retired, broken>>

\* the function provide returned; its effect is disarmed before it runs
Withdraw(p) ==
    /\ Idle /\ p \in live /\ live' = live \ {p}
    /\ Pull(Providers[p].key, Providers[p].by, p, <<>>)
    /\ UNCHANGED <<fiber_state, own, retired, broken, dropped>>

ActivateFiber(f) ==
    /\ Idle /\ Activate(f, <<>>)
    /\ UNCHANGED <<providers, store, own, retired, broken, live, dropped>>

DeactivateFiber(f) ==
    /\ Idle /\ Deactivate(f, <<>>)
    /\ UNCHANGED <<providers, store, own, retired, broken, live, dropped>>

\* retire: the flag first, then deactivate, then out of the registry
Retire(f) ==
    /\ Idle /\ f \notin retired /\ retired' = retired \cup {f} /\ Deactivate(f, <<>>)
    /\ UNCHANGED <<providers, store, own, broken, live, dropped>>

\* the component starts or stops raising
Break(f) ==
    /\ Idle /\ broken' = (IF f \in broken THEN broken \ {f} ELSE broken \cup {f})
    /\ UNCHANGED <<providers, store, fiber_state, own, frames, retired, live, dropped>>

-----------------------------------------------------------------------------
(* The innermost call goes on *)
Top == Last(frames)
Outer == Front(frames)
Running(op) == frames # <<>> /\ Top.op = op
SameServices == UNCHANGED <<providers, store, own, dropped>>
SameFibers == UNCHANGED <<retired, broken, live, revived, stale>>

\* Mutant of NotifyNext: a withdrawal starts fibers but stops none
NotifyNextStartsOnly ==
    /\ Running("notify") /\ Top.due # {}
    /\ LET f == Fibers[Earliest(Top.due)]
           outer == Append(Outer, [Top EXCEPT !.due = @ \ {Earliest(@)}])
       IN IF f \notin retired /\ fiber_state[f] = "INACTIVE" THEN Activate(f, outer)
          ELSE fiber_state' = fiber_state /\ frames' = outer
    /\ SameServices /\ SameFibers

\* _notify: the registered fibers in order, each by the state it is in now
NotifyNext ==
    /\ Running("notify") /\ Top.due # {}
    /\ LET f == Fibers[Earliest(Top.due)]
           outer == Append(Outer, [Top EXCEPT !.due = @ \ {Earliest(@)}])
           gone == Top.withdrawn \/ ~Satisfied(f)
       IN IF f \notin retired /\ gone /\ fiber_state[f] = "ACTIVE" THEN Deactivate(f, outer)
          ELSE IF f \notin retired /\ ~gone /\ fiber_state[f] = "INACTIVE" THEN Activate(f, outer)
          ELSE fiber_state' = fiber_state /\ frames' = outer
    /\ SameServices /\ SameFibers

NotifyEnds ==
    /\ Running("notify") /\ Top.due = {} /\ frames' = Outer
    /\ SameServices /\ SameFibers /\ UNCHANGED fiber_state

\* apply_fn provides the fiber's next service
ApplyProvides ==
    /\ Running("apply")
    /\ LET f == Top.fiber
           k == Gives[f][Len(own[f]) + 1]
       IN /\ Len(own[f]) < Len(Gives[f])
          /\ own' = [own EXCEPT ![f] = Append(@, k)]
          /\ Push(k, f, <<f, k>>, frames)
    /\ SameFibers /\ UNCHANGED fiber_state

\* Mutant of ApplyFails: what it had provided stays
ApplyFailsLeaves ==
    /\ Running("apply") /\ Len(own[Top.fiber]) = Len(Gives[Top.fiber]) /\ Top.fiber \in broken
    /\ fiber_state' = [fiber_state EXCEPT ![Top.fiber] = "FAILED"]
    /\ frames' = Outer
    /\ SameServices /\ SameFibers

\* it raises, which disposes of what it had provided
ApplyFails ==
    /\ Running("apply") /\ Len(own[Top.fiber]) = Len(Gives[Top.fiber]) /\ Top.fiber \in broken
    /\ fiber_state' = [fiber_state EXCEPT ![Top.fiber] = "FAILED"]
    /\ frames' = Append(Outer, [op |-> "dispose", fiber |-> Top.fiber])
    /\ SameServices /\ SameFibers

\* or returns; nobody looks again whether the fiber is satisfied
ApplyReturns ==
    /\ Running("apply") /\ Len(own[Top.fiber]) = Len(Gives[Top.fiber]) /\ Top.fiber \notin broken
    /\ fiber_state' = [fiber_state EXCEPT ![Top.fiber] = "ACTIVE"]
    /\ revived' = revived \cup {Top.fiber}
    /\ stale' = IF Satisfied(Top.fiber) THEN stale \ {Top.fiber} ELSE stale \cup {Top.fiber}
    /\ frames' = Outer
    /\ SameServices /\ UNCHANGED <<retired, broken, live>>

\* the active context is disposed of: its provisions, last first
UnwindNext ==
    /\ Running("dispose") /\ own[Top.fiber] # <<>>
    /\ own' = [own EXCEPT ![Top.fiber] = Front(@)]
    /\ LET k == Last(own[Top.fiber]) IN Pull(k, Top.fiber, <<Top.fiber, k>>, frames)
    /\ SameFibers /\ UNCHANGED <<fiber_state, dropped>>

UnwindEnds ==
    /\ Running("dispose") /\ own[Top.fiber] = <<>>
    /\ fiber_state' = [fiber_state EXCEPT ![Top.fiber] = IF @ = "FAILED" THEN @ ELSE "INACTIVE"]
    /\ frames' = Outer
    /\ SameServices /\ SameFibers

\* _dfs: the active fibers that depend on the key, or on what the last fiber
\* of the path gives, and were not visited; the order is that of the returns
Reached == (Top.act \ Top.visited) \cap
           Dependents(IF Top.path = <<>> THEN {Top.key} ELSE ToSet(Gives[Fibers[Last(Top.path)]]))

Visit ==
    /\ Running("order") /\ Reached # {}
    /\ LET i == Earliest(Reached)
       IN frames' = Append(Outer, [Top EXCEPT !.visited = @ \cup {i}, !.path = Append(@, i)])
    /\ SameServices /\ SameFibers /\ UNCHANGED fiber_state

VisitReturns ==
    /\ Running("order") /\ Reached = {} /\ Top.path # <<>>
    /\ frames' = Append(Outer, [Top EXCEPT !.order = Append(@, Last(Top.path)), !.path = Front(@)])
    /\ SameServices /\ SameFibers /\ UNCHANGED fiber_state

\* the dependents, one after the other; then the service is dropped, with
\* whatever else its realm holds by now, and the rest is notified
Ordered == Running("order") /\ Reached = {} /\ Top.path = <<>>

DeactivateNext ==
    /\ Ordered /\ Top.order # <<>>
    /\ Deactivate(Fibers[Head(Top.order)], Append(Outer, [Top EXCEPT !.order = Tail(@)]))
    /\ SameServices /\ SameFibers

DropService ==
    /\ Ordered /\ Top.order = <<>>
    /\ LET realm == Resolve[Top.by][Top.key]
       IN /\ providers' = [providers EXCEPT ![realm] = <<>>]
          /\ store' = [store EXCEPT ![realm] = NoValue]
          /\ dropped' = dropped \cup (ToSet(providers[realm]) \cap (Fiber \X Keys))
    /\ frames' = Append(Outer, Notify(Top.key, TRUE))
    /\ SameFibers /\ UNCHANGED <<fiber_state, own>>

ServicesNext ==
    \/ \E p \in DOMAIN Providers : Provide(p) \/ Withdraw(p)
    \/ \E f \in Fiber : ActivateFiber(f) \/ DeactivateFiber(f) \/ Retire(f) \/ Break(f)
    \/ NotifyNext \/ NotifyEnds \/ ApplyProvides \/ ApplyFails \/ ApplyReturns
    \/ UnwindNext \/ UnwindEnds \/ Visit \/ VisitReturns \/ DeactivateNext \/ DropService

ServicesSpec == ServicesInit /\ [][ServicesNext]_servicesVars

-----------------------------------------------------------------------------
(* Whatever a chain of provide, restore, withdraw, failing activation and   *)
(* deactivation set off, when the call returns every active fiber's         *)
(* dependencies are provided, in the realm the fiber sees.  The exception   *)
(* is a fiber whose dependency went while its own apply_fn ran: _notify     *)
(* passes over a fiber that is RELOADING.                                   *)
ActiveSatisfied ==
    frames = <<>> => \A f \in Fiber : fiber_state[f] = "ACTIVE" /\ f \notin stale => Satisfied(f)

OnStack(f, k) == <<f, k>> \in ToSet(providers[Resolve[f][k]])

(* Between operations what the store shows is the top of the provider       *)
(* stack, no service of a stopped fiber is left on a stack, and a running   *)
(* fiber's services are there, but for those a withdrawal discarded with    *)
(* its realm after the fiber had come back during it.                       *)
ServicesOfActive ==
    frames = <<>> =>
        /\ \A r \in Realms : store[r] = IF providers[r] = <<>> THEN NoValue ELSE Last(providers[r])
        /\ \A f \in Fiber : \A k \in ToSet(Gives[f]) :
              /\ OnStack(f, k) => fiber_state[f] = "ACTIVE"
              /\ fiber_state[f] = "ACTIVE" => OnStack(f, k) \/ <<f, k>> \in dropped

(* "Deactivation of transitive dependent fibers before provider             *)
(* unmounting" (cordis.py:14): a running fiber that is stopped finds every  *)
(* service it depends on, however deep the withdrawal is nested, unless it  *)
(* became active within the same operation, which can be after the order    *)
(* of the withdrawal was fixed, or had become active without them.          *)
WithdrawnLast ==
    [][\A f \in Fiber : fiber_state[f] = "ACTIVE" /\ fiber_state'[f] = "UNLOADING"
          => Satisfied(f) \/ f \in revived \/ f \in stale]_servicesVars
=============================================================================
