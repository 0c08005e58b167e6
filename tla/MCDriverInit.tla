---------------------------- MODULE MCDriverInit ----------------------------
(* Machines for DriverInit. *)
EXTENDS DriverInit

Machine(id, transparent, cmd, hi, qs, room, luns) ==
  [id |-> id, transparent |-> transparent, cmd |-> cmd,
   bars |-> IF id = "transitional" THEN {"bar0", "bar4"} ELSE {"bar4"},
   common |-> TRUE, bar5 |-> hi,
   features |-> {"INDIRECT_DESC", "EVENT_IDX"}, queues |-> qs, room |-> room,
   luns |-> luns]

\* The transitional device behind a transparent bridge (Pegasos2) and behind
\* one that drops memory cycles (AmigaOne), the modern-only device behind
\* both, a machine without device, a firmware that set only one of the two
\* command bits, a device without request queue and with BAR 4 out of reach.
MCMachines ==
  {Machine("none", TRUE, {}, "zero", {}, 1, <<>>),
   Machine("transitional", TRUE, {}, "zero", {0, 1, 2}, 2, <<"disk", "disk", "disk">>),
   Machine("transitional", FALSE, {"MEMORY", "MASTER"}, "ones", {0, 2}, 1,
           <<"disk", "absent", "disk">>),
   Machine("transitional", TRUE, {"MASTER"}, "zero", {2}, 2, <<"other", "disk">>),
   Machine("modern_only", TRUE, {}, "ones", {2}, 2, <<"disk", "other">>),
   Machine("modern_only", FALSE, {}, "zero", {0, 1, 2}, 2, <<"disk">>),
   Machine("transitional", FALSE, {}, "high", {0, 1}, 2, <<"disk">>)}
=============================================================================
