--------------------------- MODULE MCAgentVersions ---------------------------
(* Small instances of AgentVersions for TLC: each setting turns on the      *)
(* requests of one circumstance, so that the instance reaches all of them   *)
(* without multiplying them.                                                *)
EXTENDS AgentVersions, TLC

CONSTANTS t1, t2, k1, k2, s1, s2, w1, w2

Setting(ops, slots, workers, executor, established, refs, versions, horizon) ==
  [ops |-> ops, slots |-> slots, workers |-> workers, configs |-> {k1}, executor |-> executor,
   auto |-> FALSE, issuer |-> "local", established |-> established, refs |-> refs,
   versions |-> versions, horizon |-> horizon]

\* The identity row, raced by its writers, and its activation.
Lifecycle == Setting({"register", "activate", "refresh", "draft", "start", "promote", "rollback"}
  \cup Managed, Slots, {}, "fixed", FALSE, {t1}, 2, 1)

\* Promotions and rollbacks of several eligible versions against heartbeats.
Promotions == [Setting({"draft", "start", "promote", "rollback", "heartbeat"},
  Slots, {}, "fixed", TRUE, {t1}, 3, 0) EXCEPT !.configs = Configs]

\* One run of two tasks on the platform, worked on with tokens of any version.
Harvesting == [Setting({"draft", "start", "work"},
  {s1}, {w1}, "platform", TRUE, {t1, t2}, 2, 1) EXCEPT !.issuer = "external"]

\* Two runs compete for a batch of one; the hook starts them as the owner does.
Competing == [Setting({"draft", "start"},
  {s1}, Workers, "platform", TRUE, {t1}, 3, 2) EXCEPT !.auto = TRUE, !.configs = Configs]

\* Benchmark sets are created while drafts look for the active one.
Benchmarks == [Setting({"draft", "benchmark"},
  Slots, {}, "fixed", TRUE, None, 2, 0) EXCEPT !.auto = TRUE]

\* Candidates are judged while drafts cite them.
Learning == Setting({"draft", "extract", "judge"},
  Slots, {}, "fixed", TRUE, {t1}, 3, 0)

MCSettings == {Lifecycle, Promotions, Harvesting, Competing, Benchmarks, Learning}
RevocationSettings == {Lifecycle}
MCContents == {{}, {t1}, {t1, t2}}

=============================================================================
