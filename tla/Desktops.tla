------------------------------ MODULE Desktops ------------------------------
(***************************************************************************)
(* Whose desktop a request is about (strategy/kwin/env.rs and the          *)
(* resolver of strategy/kwin/mod.rs) and who may end a session.            *)
(*                                                                         *)
(* /run/user is the set of Wayland sockets in it that pass the checks of   *)
(* discover_in and behind which a KWin answers kscreen-doctor: one that    *)
(* fails a check, or whose probe fails, counts as absent.                  *)
(***************************************************************************)
EXTENDS FiniteSets

CONSTANTS
    Users,      \* those who have a desktop
    Root,       \* uid 0
    Sockets,    \* the Wayland sockets there can be: [uid, wayland_display]
    Nobody      \* no compositor, or several

ASSUME DesktopsAssumption ==
    /\ Root \notin Users /\ Nobody \notin Users \cup {Root}
    /\ \A s \in Sockets : s.uid \in Users

Uids == Users \cup {Root}

\* A user's own sockets; everybody's for root.
discover_in(run_user, requester_uid) ==
    {s \in run_user : requester_uid \in {Root, s.uid}}

\* The uid of the only candidate.
resolve_candidates(candidates) ==
    IF Cardinality(candidates) = 1
    THEN (CHOOSE s \in candidates : TRUE).uid
    ELSE Nobody

resolve_compositor(run_user, requester_uid) ==
    resolve_candidates(discover_in(run_user, requester_uid))

\* Whose desktop a request may turn out to be about: users log in and out when
\* they like.
Resolved(requester_uid) ==
    {resolve_compositor(run_user, requester_uid) : run_user \in SUBSET Sockets}

\* session_uid is the one on record, Nobody without a session.
is_authorized(uid, session_uid) == uid = Root \/ uid = session_uid
=============================================================================
