--------------------------- MODULE MC_HttpClients ---------------------------
(***************************************************************************)
(* Two tasks share the MiniMax cooldown, a third one calls Anthropic.      *)
(* The schedules keep their shape: no delay before MiniMax's first attempt *)
(* and jitter before the second, an exponential backoff that reaches its   *)
(* cap.  A batch reads one document at a time; the tasks are a program     *)
(* that uses the library.                                                  *)
(***************************************************************************)
EXTENDS HttpClients

MCBackendOf == [t \in Tasks |-> IF t = "judge" THEN "anthropic" ELSE "minimax"]

MCRequests == {[op |-> "complete", messages |-> <<[role |-> "system", length |-> 1],
                                                  [role |-> "system", length |-> 1],
                                                  [role |-> "user", length |-> 9]>>],
               [op |-> "judge", messages |-> <<[role |-> "user", length |-> 2]>>]}

MCContents == {<<"<think>", "YES">>,
               <<"<think>", "text", "</think>", "nl", "fence", "nl", "YES", "nl", "fence">>}

MCDelays == <<{0}, {1, 2}>>
MCLimits == {1}
=============================================================================
