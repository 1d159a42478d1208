-------------------------------- MODULE MCJbd --------------------------------
(* Model-checking instances of Jbd. *)
EXTENDS Jbd, TLC

Symmetry == Permutations(Freeable) \cup Permutations(Value \ {MagicValue})

\* Recoverable says nothing after a window was stepped into.
Unspoiled == spoiled = {}

\* The control state: who owns which buffer, without contents and disk.
Control ==
    <<[b \in Block |-> [buf[b] EXCEPT !.val = None, !.cp = @.tid # 0]], kind, pinned, tasks,
      run, com, free, mode>>
Running == mode = "up"
==============================================================================
