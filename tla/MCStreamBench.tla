---------------------------- MODULE MCStreamBench ----------------------------
(* Every driver with the tests its bench makes, each test with two or three   *)
(* of its packets: the second meets what the first left behind, the third     *)
(* brings every type of the mix.  Long payloads are cut to 62 bytes, a packet *)
(* that is still longer than the pipeline.                                    *)
EXTENDS StreamBench

Each(driver, programs) == {[driver |-> driver, program |-> p] : p \in programs}

MCTests ==
  Each(tb_random, {random_run(<<s, t>>, 10) : s, t \in 0 .. 2})
  \cup Each(tb_stress, {stress_small(2), stress_mixed(3), stress_jumbo(1, 62),
                        stress_batched(2)})
  \cup Each(tb_match_action, {match_integrity})
  \cup Each(tb_flow_integrity, {flow_integrity})
  \cup Each(tb_flow, {flow_same(2), flow_multi(2)})
  \cup Each(tb_pipeline, pipeline_tests \cup pipeline_multi)
  \cup Each(tb_perf, perf_sizes(2, {22, 62}) \cup perf_csv(2, {64})
                         \cup {perf_mixed(3, 62)})
  \cup Each(tb_axis_fifo, {fifo_basic, fifo_backpressure(<<30, 22, 30>>)})
  \cup Each(tb_scheduler_one, {scheduler_strict, scheduler_wrr})
  \cup Each(tb_scheduler_all, {scheduler_multi})
=============================================================================
