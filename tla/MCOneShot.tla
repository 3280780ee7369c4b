----------------------------- MODULE MCOneShot -----------------------------
(* Small instances of OneShot for TLC.                                     *)
EXTENDS OneShot, TLC

CONSTANTS a, b, c

Line(uid, container, values) ==
  [uid |-> uid, container |-> container,
   matches |-> [i \in DOMAIN values |->
                  [detector |-> "d", rule |-> "r", value |-> values[i]]]]

\* Two containers of one pod that share a secret, and an empty log.
MCLinesOf == (a :> <<Line("u", "a", <<"x">>), Line("u", "a", <<>>)>>)
          @@ (b :> <<Line("u", "b", <<"x">>)>>)
          @@ (c :> <<>>)

MCNamespaceOf == (a :> "n1") @@ (b :> "n2") @@ (c :> "n1")

Flags(all, namespaces, context, env) ==
  [all |-> all, namespaces |-> namespaces, context |-> context, env |-> env]

\* -A, -n, the context's namespace, and a contradiction.
MCFlagSets == {Flags(TRUE, {}, "n1", ""), Flags(FALSE, {"n1"}, "n2", ""),
               Flags(FALSE, {}, "n1", "n2"), Flags(TRUE, {"n2"}, "", "")}
=============================================================================
