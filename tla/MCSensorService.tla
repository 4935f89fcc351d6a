-------------------------- MODULE MCSensorService --------------------------
(* SensorService for TLC: more sensors than slots, fewer, and none. *)
EXTENDS SensorService, TLC

CONSTANTS c1, c2

Interchangeable == Permutations({c1, c2})

MCPresets == <<"memory", "palm">>
Both == {"memory", "palm"}

MCMachines ==
  {[variant |-> "Think", methods |-> ms] : ms \in {{}, {"palm"}}}
  \cup {[variant |-> "Idea", answers |-> as, methods |-> Both] :
          as \in {{}, {"fanTwo", "GPU"}, {"fanOne", "fanTwo", "IR"}, {"fanOne", "fanTwo", "IR", "CPU", "GPU"}}}
  \cup {[variant |-> "DY", sensors |-> ss, methods |-> Both] :
          ss \in {<<>>, <<"s1", "s2", "s3", "s4">>, <<"s1", "s2", "s3", "s4", "s5", "s6">>}}
=============================================================================
