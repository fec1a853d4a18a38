--------------------------- MODULE MC_IngestBatch ---------------------------
(***************************************************************************)
(* Small commands for TLC: every kind of client, every kind of line, and   *)
(* answers with names of one entity in two spellings, and with names and   *)
(* relations that the sanitizer rejects.                                   *)
(***************************************************************************)
EXTENDS IngestBatch

CONSTANTS b, c

MCCallers == {b, c}

MCKinds == {"claude-cli", "codex-cli", "gemini-cli", "minimax", "router"}
Env(claude_bin, api_key, light, deep) ==
    [claude_bin |-> claude_bin, api_key |-> api_key, light |-> light, deep |-> deep,
     threshold |-> 7]
Plain == Env(FALSE, FALSE, "minimax", "codex-cli")
Full == Env(TRUE, TRUE, "minimax", "codex-cli")
MCEnvs == {Plain, Full, Env(FALSE, TRUE, "minimax", "codex-cli"),
           Env(TRUE, TRUE, "codex-cli", "minimax"), Env(TRUE, TRUE, "router", "minimax")}

Simple == <<"Cap", " ", "Cap", " ", "word">>
Complex == <<"Cap", " ", "Cap", ".", " ", "Cap">>
MCTexts == {Simple, Complex}

\* Entity 1 has two spellings; the names of entity 3 are rejected, and those of
\* entities 4 and 5 come with relations that are.
MCNames == {"ann", "Ann", "bob", "", "long", "eve", "dan"}
MCIdOf == [name \in MCNames |-> CASE name \in {"ann", "Ann"} -> 1 [] name = "bob" -> 2
                                   [] name = "eve" -> 4 [] name = "dan" -> 5 [] OTHER -> 3]
T(src, rel, dst) == [src |-> src, rel |-> rel, dst |-> dst]
MCEnvelopes == {<<>>, <<T("ann", "knows", "bob")>>, <<T("eve", "", "bob"), T("ann", "slur", "dan")>>,
                <<T("ann", "likes", "Ann"), T("long", "knows", "bob"), T("bob", "knows", "")>>}

MCTextOf == [d \in {"d1", "d2"} |-> IF d = "d1" THEN Simple ELSE Complex]

Program(command, kind, env, file) ==
    [command |-> command, kind |-> kind, env |-> env, file |-> file]
MCPrograms ==
    {Program("ingest-batch", "claude-cli", Plain, <<"d1", "bad", "blank", "d2">>),
     Program("ingest-batch", "gemini-cli", Plain, <<"d1", "unreadable", "d2">>),
     Program("ingest-batch", "codex-cli", Plain, <<"d1", "d1">>),
     Program("ingest-batch", "router", Full, <<"d2">>),
     Program("ingest-batch", "minimax", Plain, <<"d1">>),
     Program("ingest", "codex-cli", Plain, <<"d1">>),
     Program("ingest-stub", "minimax", Plain, <<"d1">>)}
    \cup {Program("library", "router", env, <<>>) : env \in MCEnvs}
MCSlop == {Program("ingest-batch", "minimax", Full, <<"d1">>)}
=============================================================================
