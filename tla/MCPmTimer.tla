----------------------------- MODULE MCPmTimer -----------------------------
(* An instance of PmTimer for TLC: "mcumgr smp" and "zperf_work_q" have one   *)
(* slot of the hash table, and a thread of the application another's.         *)
EXTENDS PmTimer

Names == <<"mcumgr smp", "smp_udp4", "zperf_work_q">>
Threads == {"mcumgr smp", "smp_udp4", "zperf_work_q", "app"}
Hash == [k \in Threads |-> IF k \in {"smp_udp4", "app"} THEN 1 ELSE 0]
=============================================================================
