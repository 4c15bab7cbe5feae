----------------------------- MODULE MCBenchmark -----------------------------
(***************************************************************************)
(* Two workers, two cells, and three programs: the benchmark, the burst    *)
(* test, and two threads using the rest of the pool's interface, where the *)
(* owner may shut the pool down while the other thread is submitting.      *)
(***************************************************************************)
EXTENDS Benchmark, TLC

CONSTANTS main, aux

Plain(id, withFuture, throws) == [id |-> id, kind |-> "plain", future |-> withFuture, throws |-> throws]
Latency(id, kind) == [id |-> id, kind |-> kind, future |-> FALSE, throws |-> FALSE]

RunBenchmark ==
    [todo |-> main :> <<Latency(1, "burst"), Latency(2, "burst"), Latency(3, "burst")>> @@ aux :> << >>,
     explicit |-> FALSE]

BurstTest ==
    [todo |-> main :> <<Latency(1, "steady"), Latency(2, "steady"), Latency(3, "burst"), Latency(4, "burst")>>
              @@ aux :> << >>,
     explicit |-> TRUE]

Client ==
    [todo |-> main :> <<Plain(1, FALSE, TRUE)>>
              @@ aux :> <<Plain(2, TRUE, FALSE), Plain(3, TRUE, TRUE)>>,
     explicit |-> TRUE]

MCPrograms == {RunBenchmark, BurstTest, Client}
=============================================================================
