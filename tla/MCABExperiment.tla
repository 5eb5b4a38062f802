--------------------------- MODULE MCABExperiment ---------------------------
(* A native base arm against an LLVM arm, one round or two, two compilers at *)
(* a time, and one fault: a seed list that grows on resume and two that the  *)
(* driver refuses.                                                           *)
EXTENDS ABExperiment

MCBackend == <<"native", "llvm">>
MCSeedLists == {<<5>>, <<5, 9>>, <<9, 9>>, <<0, 5>>}
MCOneRound == {<<5>>}

\* A third session for what the second one, trimming the logs, may lose, and
\* a fourth for what the third one, writing to them, finds.
MCMaxSessions(f, rounds) ==
    CASE f = "broken" -> 1
      [] f = "filler" -> 2
      [] f = "none" /\ rounds = 1 -> 4
      [] f = "none" /\ rounds # 1 -> 3
=============================================================================
