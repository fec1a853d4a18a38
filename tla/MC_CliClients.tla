--------------------------- MODULE MC_CliClients ----------------------------
(***************************************************************************)
(* Two calls of any backends share one thread for blocking jobs, so that   *)
(* one can be kept waiting by the other.  The shorter prompt fits into the *)
(* pipe; of a longer one a part is still to be written when the child      *)
(* talks, before it has read anything or after, and the pipe is full.      *)
(***************************************************************************)
EXTENDS CliClients

Message(role, length) == [role |-> role, length |-> length]
Request(backend, messages) == [backend |-> backend, messages |-> messages]

MCRequests == {Request("claude", <<Message("system", 2), Message("user", 2)>>),
               Request("codex", <<Message("system", 1), Message("user", 1)>>),
               Request("gemini", <<>>)}

Good == [Quiet EXCEPT !.docs = <<"text">>, !.file = "text"]

MCOutputs == {Good,
              [Good EXCEPT !.marker = "stdout"],
              [Quiet EXCEPT !.ok = FALSE, !.marker = "stderr", !.file = ""],
              [Quiet EXCEPT !.utf8 = FALSE, !.docs = <<"none", "text", "">>]}
=============================================================================
