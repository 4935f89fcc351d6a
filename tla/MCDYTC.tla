------------------------------- MODULE MCDYTC -------------------------------
(* DYTC for TLC: two desk modes, the default one and a controlled mode wider *)
(* than its four bits.                                                     *)
EXTENDS DYTC

MCModes == {[func |-> "MMC", perf |-> 3], [func |-> "MMC", perf |-> Balance],
            [func |-> "PSC", perf |-> 18]}

MCRaw == {Get, Reset, [name |-> "SET", func |-> "STD", perf |-> 0, valid |-> FALSE],
          [name |-> "SET", func |-> "STD", perf |-> 3, valid |-> TRUE]}

MCBitmaps == {{"STD", "CQL", "MMC", "PSC"}, {"STD", "MMC"}}
=============================================================================
