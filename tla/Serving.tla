-------------------------------- MODULE Serving --------------------------------
(*****************************************************************************)
(* What a server serves, each by itself: the life of the server, an SSH      *)
(* session, and fetches by a client through the pack cache.  A behaviour     *)
(* is one of a part, chosen at the start, and the other parts stay as they   *)
(* begin.                                                                    *)
(*****************************************************************************)
EXTENDS ServerLifecycle, Fetch, SshSession

VARIABLE part       \* the part a behaviour is of

servingVars == <<part, vars, fetchVars, sshVars>>

ServingInit ==
    /\ part \in {"server", "ssh", "fetch"}
    /\ Init /\ FetchInit /\ SshInit
    /\ part # "fetch" => srefs = NoRefs
    /\ part # "ssh" => service = "push" /\ want.commands = <<>> /\ want.report

ServingNext ==
    /\ UNCHANGED part
    /\ \/ part = "server" /\ Next /\ UNCHANGED <<fetchVars, sshVars>>
       \/ part = "ssh" /\ SshNext /\ UNCHANGED <<vars, fetchVars>>
       \/ part = "fetch" /\ FetchNext /\ UNCHANGED <<vars, sshVars>>

\* Each part runs on as long as it can; nobody has to call, to hang up or to abort.
ServingSpec ==
    /\ ServingInit /\ [][ServingNext]_servingVars
    /\ Fairness
    /\ WF_sshVars(part = "ssh" /\ ServerSide) /\ WF_sshVars(part = "ssh" /\ ClientSide)

-------------------------------------------------------------------------------
(* What is asked of the parts beside what their modules state.               *)

\* An SSH session ends, whichever windows, acknowledgments and depth there are and
\* wherever the client dies (ssh-session.ts).
SessionEnds == <>[](part = "ssh" => Over)

\* What has begun only gets better: once closed, the set of operations inside only shrinks
\* (enter); a commit that leaves .git/shallow has its parents (applyShallowUpdates).
NothingSlipsIn == [][NothingEntersAfterClose /\ UnshallowedHaveParents]_<<vars, fetchVars>>
===============================================================================
