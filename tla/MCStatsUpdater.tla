--------------------------- MODULE MCStatsUpdater ---------------------------
(***************************************************************************)
(* A small instance of the updater pool: three tasks of the three kinds,   *)
(* two of them on the same database, with one or two namespace keys each. *)
(***************************************************************************)
EXTENDS StatsUpdater, TLC

MCTasks ==
    <<[kind |-> "m", db |-> "d1", keys |-> {"a", "b"}],
      [kind |-> "t", db |-> "d1", keys |-> {"a"}],
      [kind |-> "q", db |-> "d2", keys |-> {"c"}]>>

MCSmallTasks ==
    <<[kind |-> "m", db |-> "d1", keys |-> {"a"}],
      [kind |-> "t", db |-> "d1", keys |-> {"a"}],
      [kind |-> "q", db |-> "d2", keys |-> {"c"}]>>

MCTwoTasks ==
    <<[kind |-> "m", db |-> "d1", keys |-> {"a", "b"}],
      [kind |-> "q", db |-> "d2", keys |-> {"c"}]>>

=============================================================================
