-------------------------- MODULE ReleasePublication --------------------------
(***************************************************************************)
(* publishRelease and verifyRelease (src/adapters/github/publication.ts):  *)
(* engines create, or find, the release of a minted tag on the remote of   *)
(* GitHubRemote and read it back, one request at a time, while others      *)
(* edit the release and move the tag.                                      *)
(*                                                                         *)
(* The release API is external: a create makes the release of a tag that   *)
(* has none, and the tag too, at the commit it was sent, when it is        *)
(* missing; a repository the credential cannot see answers 404.            *)
(***************************************************************************)
EXTENDS GitHubRemote

CONSTANTS
    Publishers,   \* the engine processes that publish the tag
    Released      \* the tag they publish

VARIABLES
    release,      \* the release of the tag
    pub,          \* the call each publisher is in
    seen          \* what stood since each publisher's call began

pubVars == <<release, pub>>

NoRelease == [body |-> FALSE, metadata |-> FALSE, exists |-> FALSE]
Release == [body |-> TRUE, metadata |-> TRUE, exists |-> TRUE]
Releases == [body : BOOLEAN, metadata : BOOLEAN, exists : {TRUE}] \cup {NoRelease}

Tagged == remote[Released] = local[Released]
Untagged == remote[Released] = NoCommit

Unseen == [body |-> FALSE, tagged |-> FALSE, gone |-> FALSE, untagged |-> FALSE]

InitPublication ==
    /\ release = NoRelease
    /\ pub = [p \in Publishers |-> [pc |-> "idle", leg |-> "none", answer |-> "none"]]
    /\ seen = [p \in Publishers |-> Unseen]

Goes(p, pc, leg) == pub' = [pub EXCEPT ![p] = [pc |-> pc, leg |-> leg, answer |-> "none"]]
Says(p, answer) == pub' = [pub EXCEPT ![p].pc = "done", ![p].answer = answer]

-----------------------------------------------------------------------------
(* The engine publishes its minted tag, and again when it is resumed; a    *)
(* publication that went well is verified.                                 *)
Publishes(p) ==
    /\ \/ pub[p].pc = "idle"
       \/ pub[p].pc = "done" /\ pub[p].answer \notin {"ok", "verified"}
    /\ Call
    /\ Goes(p, "read", "publish")
    /\ UNCHANGED <<remoteVars, release>>

Verifies(p) ==
    /\ pub[p].answer = "ok"
    /\ Goes(p, "read", "verify")
    /\ UNCHANGED <<remoteVars, release, calls>>

(* A request that failed claims nothing - except that a release was        *)
(* created by then.                                                        *)
Fails(p) ==
    /\ pub[p].pc \in {"read", "tag", "probe"}
    /\ Fault
    /\ \E failure \in {"refused", "transport-failure"} :
          Says(p, IF pub[p].leg = "created" /\ failure = "transport-failure"
                  THEN "ambiguous" ELSE failure)
    /\ UNCHANGED <<local, remote, visible, edits, release, calls>>

(* A publication that finds the recorded body has only the tag to check.   *)
FindsRelease(p) ==
    /\ pub[p].pc = "read" /\ pub[p].leg = "publish"
    /\ visible /\ release.exists
    /\ \/ release.body /\ Goes(p, "tag", "satisfied")
       \/ ~release.body /\ Says(p, "refused")
    /\ UNCHANGED <<remoteVars, release, calls>>

(* A verification asks for the object's own metadata too.                  *)
ReadsRelease(p) ==
    /\ pub[p].pc = "read" /\ pub[p].leg = "verify"
    /\ visible /\ release.exists
    /\ \/ release.body /\ release.metadata /\ Goes(p, "tag", "verify")
       \/ ~(release.body /\ release.metadata) /\ Says(p, "refused")
    /\ UNCHANGED <<remoteVars, release, calls>>

(* A bug: a 404 is taken for an absent release.                            *)
MutantUnread(p) == Says(p, "absent")

(* A 404 may also be a repository out of sight: it is probed.              *)
Unread(p) == Goes(p, "probe", "absent")
ReadsNoRelease(p) ==
    /\ pub[p].pc = "read"
    /\ ~(visible /\ release.exists)
    /\ \/ pub[p].leg = "publish" /\ Goes(p, "tag", "create")
       \/ pub[p].leg = "verify" /\ Unread(p)
    /\ UNCHANGED <<remoteVars, release, calls>>

(* The tag answers the recorded target, another one, or 404.               *)
ReadsTag(p) ==
    /\ pub[p].pc = "tag"
    /\ visible /\ ~Untagged
    /\ \/ Tagged /\ pub[p].leg = "create" /\ Goes(p, "create", "create")
       \/ Tagged /\ pub[p].leg \in {"satisfied", "created"} /\ Says(p, "ok")
       \/ Tagged /\ pub[p].leg = "verify" /\ Says(p, "verified")
       \/ ~Tagged /\ Says(p, "refused")
    /\ UNCHANGED <<remoteVars, release, calls>>

ReadsNoTag(p) ==
    /\ pub[p].pc = "tag"
    /\ ~visible \/ Untagged
    /\ Goes(p, "probe", pub[p].leg)
    /\ UNCHANGED <<remoteVars, release, calls>>

(* Only a repository in sight lacks what it answered 404 to; a missing tag *)
(* is the create's own to make.                                            *)
Probes(p) ==
    /\ pub[p].pc = "probe"
    /\ \/ ~visible /\ Says(p, "refused")
       \/ visible /\ pub[p].leg = "absent" /\ Says(p, "absent")
       \/ visible /\ pub[p].leg = "create" /\ Goes(p, "create", "create")
       \/ visible /\ pub[p].leg \notin {"absent", "create"} /\ Says(p, "tag-missing")
    /\ UNCHANGED <<remoteVars, release, calls>>

-----------------------------------------------------------------------------
Lands ==
    /\ visible /\ ~release.exists
    /\ release' = Release
    /\ remote' = IF Untagged THEN [remote EXCEPT ![Released] = local[Released]] ELSE remote

(* A bug: a create that answered is trusted with the tag.                  *)
MutantCreated(p) == Says(p, "ok")

(* The tag is read again once the release is created: it may have moved    *)
(* since the gate read it.                                                 *)
Created(p) == Goes(p, "tag", "created")
Creates(p) ==
    /\ pub[p].pc = "create"
    /\ Lands
    /\ Created(p)
    /\ UNCHANGED <<local, visible, edits, faults, calls>>

(* No readable answer: the release may have been created all the same.     *)
CreateFails(p) ==
    /\ pub[p].pc = "create"
    /\ Fault
    /\ Lands \/ UNCHANGED <<release, remote>>
    /\ \E answer \in {"ambiguous", "transport-failure"} : Says(p, answer)
    /\ UNCHANGED <<local, visible, edits, calls>>

(* 404, a release that is there already, a credential turned down, or a    *)
(* tag to make at a commit the remote does not hold.                       *)
CreateRefused(p) ==
    /\ pub[p].pc = "create"
    /\ \/ (~visible \/ release.exists \/ Untagged) /\ Budget
       \/ Fault
    /\ Says(p, "refused")
    /\ UNCHANGED <<local, remote, visible, edits, release, calls>>

PublisherSteps(p) ==
    \/ Publishes(p)
    \/ Verifies(p)
    \/ Fails(p)
    \/ FindsRelease(p)
    \/ ReadsRelease(p)
    \/ ReadsNoRelease(p)
    \/ ReadsTag(p)
    \/ ReadsNoTag(p)
    \/ Probes(p)
    \/ Creates(p)
    \/ CreateFails(p)
    \/ CreateRefused(p)

(* Others write, edit or delete the release.                               *)
OthersRelease ==
    /\ Edits
    /\ \E r \in Releases \ {release, Release} : release' = r
    /\ UNCHANGED <<local, remote, visible, faults, pub, calls>>

(* History: what stood at some moment of the call, and whether the tag     *)
(* stood at its target once the recorded release was there.                *)
SeenNow(before) ==
    LET body == before.body \/ (release'.exists /\ release'.body)
    IN [body |-> body,
        tagged |-> before.tagged \/ (body /\ Tagged'),
        gone |-> before.gone \/ ~release'.exists,
        untagged |-> before.untagged \/ Untagged']
Sees ==
    seen' = [p \in Publishers |->
                IF pub'[p].pc = "idle" THEN seen[p]
                ELSE SeenNow(IF pub'[p].pc = "read" THEN Unseen ELSE seen[p])]

-----------------------------------------------------------------------------
(* A publication or a verification that went well is true of the remote:   *)
(* a release with the recorded body stood during the call, and at that     *)
(* moment or later in it the tag stood at the recorded commit - whoever    *)
(* created the release, and wherever the tag moved between the requests.   *)
OkMeansPublished ==
    \A p \in Publishers : pub[p].answer \in {"ok", "verified"} => seen[p].tagged

(* Absence is never read off a 404 alone: a release reported absent, or a  *)
(* tag reported missing, was absent at some moment of the call.            *)
AbsenceIsObserved ==
    \A p \in Publishers :
        /\ pub[p].answer = "absent" => seen[p].gone
        /\ pub[p].answer = "tag-missing" => seen[p].untagged
=============================================================================
