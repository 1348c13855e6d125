------------------------------ MODULE FetchOnce ------------------------------
(***************************************************************************)
(* What the source-fight lease promises: the evidence of a fight is paid   *)
(* for once.  At most one caller fetches it at a time, a fetch may fail,   *)
(* and nobody fetches what is stored.                                      *)
(***************************************************************************)
CONSTANT Caller
VARIABLES
  fetching,  (* the callers that are fetching                              *)
  stored     (* the evidence is in the database                            *)

fetchVars == <<fetching, stored>>

FetchInit == fetching = {} /\ stored = FALSE

Begin(c) == /\ fetching = {} /\ ~stored
            /\ fetching' = {c}
            /\ UNCHANGED stored

End(c) == /\ fetching = {c}
          /\ fetching' = {}
          /\ stored' \in {stored, TRUE}

FetchNext == \E c \in Caller : Begin(c) \/ End(c)

FetchSpec == FetchInit /\ [][FetchNext]_fetchVars
=============================================================================
