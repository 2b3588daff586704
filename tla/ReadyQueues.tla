---------------------------- MODULE ReadyQueues ----------------------------
(***************************************************************************)
(* ReadyQueues (kernel/core/src/sched.rs): three FIFO queues of task ids,    *)
(* one per priority, and the counter that keeps Normal tasks from starving   *)
(* Background ones.  A value is a record                                     *)
(*     [ids: one sequence per tier, streak: a number].                       *)
(* The executor holds the queue's IrqSpinLock around each method, so each    *)
(* one is a single step of a model.                                          *)
(***************************************************************************)
EXTENDS Naturals, Sequences

Tiers == {"critical", "normal", "background"}

NewQueues == [ids |-> [p \in Tiers |-> << >>], streak |-> 0]

ReadyQueuesOf(S) == [ids : [Tiers -> Seq(S)], streak : Nat]

HasReady(q) == \E p \in Tiers : q.ids[p] # << >>

\* id is queued in some tier.
Has(q, id) == \E p \in Tiers : \E i \in 1 .. Len(q.ids[p]) : q.ids[p][i] = id

Push(q, p, id) == [q EXCEPT !.ids[p] = Append(@, id)]

\* (mutant) Normal tasks always go before Background ones
PopTierNoLimit(q, limit) ==
    IF q.ids["critical"] # << >> THEN "critical"
    ELSE IF q.ids["normal"] # << >> THEN "normal"
    ELSE "background"

\* The tier pop takes from, when some tier is not empty.
PopTier(q, limit) ==
    IF q.ids["critical"] # << >> THEN "critical"
    ELSE IF q.ids["normal"] # << >> /\ (q.ids["background"] = << >> \/ q.streak < limit)
      THEN "normal"
    ELSE "background"

\* normal_streak after a pop from tier p (a pop that finds nothing resets it).
StreakAfter(q, p) ==
    IF p = "normal" /\ q.ids["background"] # << >> THEN q.streak + 1 ELSE 0

PopId(q, limit) == Head(q.ids[PopTier(q, limit)])

AfterPop(q, limit) ==
    LET p == PopTier(q, limit)
    IN  IF HasReady(q)
          THEN [ids |-> [q.ids EXCEPT ![p] = Tail(@)], streak |-> StreakAfter(q, p)]
          ELSE [q EXCEPT !.streak = 0]

\* steal_one refuses the last Normal or Background entry.
CanSteal(q) == Len(q.ids["normal"]) + Len(q.ids["background"]) > 1

\* (mutant) the Critical queue is stolen from like the others
StealTierAny(q) ==
    IF q.ids["critical"] # << >> THEN "critical"
    ELSE IF q.ids["normal"] # << >> THEN "normal"
    ELSE "background"

StealTier(q) == IF q.ids["normal"] # << >> THEN "normal" ELSE "background"

StealId(q) == q.ids[StealTier(q)][Len(q.ids[StealTier(q)])]

AfterSteal(q) ==
    [q EXCEPT !.ids[StealTier(q)] = SubSeq(@, 1, Len(@) - 1)]
=============================================================================
