----------------------------- MODULE MailCustody -----------------------------
(***************************************************************************)
(* What Guardian promises the owner of the mailbox about their mail, with  *)
(* nothing said about how a run works: it only ever moves a message, never *)
(* copies, alters or deletes one; it moves a message only after an         *)
(* encrypted copy was written; and it moves only where the folder the      *)
(* message lies in permits.  Whatever the owner does is counted in         *)
(* external and may change the mailbox at will.                            *)
(***************************************************************************)
EXTENDS Naturals

CONSTANTS Contents, MaxUid, Modes

VARIABLES live, home, body, nextUid, archive, external

mail == <<live, home, body, nextUid>>

(* Inbox mail may be quarantined and mail the server called spam be rescued,
   quarantined or put up for review, the first two only if active mode is ever on; what
   lies in a training folder goes where the owner's correction says; nothing
   is ever taken out of the quarantine or the review folder. *)
Permitted(from, to) ==
  \/ from = "TrainSpam" /\ to = "Quarantine"
  \/ from = "TrainHam"  /\ to = "Inbox"
  \/ from = "Spam"      /\ to = "Review"
  \/ "active" \in Modes /\ from = "Spam" /\ to \in {"Quarantine", "Inbox"}
  \/ "active" \in Modes /\ from = "Inbox" /\ to = "Quarantine"

Init ==
  /\ live = {} /\ nextUid = 1 /\ archive = {} /\ external = 0
  /\ home = [u \in 1 .. MaxUid |-> "none"]
  /\ \A u \in 1 .. MaxUid : body[u] \notin Contents

Owner == external' = external + 1 /\ archive' = archive

(* A raw message that reached the mailbox is copied to the archive. *)
Save ==
  /\ \E u \in 1 .. MaxUid : u < nextUid /\ archive' = archive \cup {body[u]}
  /\ UNCHANGED <<mail, external>>

Relocate(u, to) ==
  /\ u \in live
  /\ body[u] \in archive
  /\ Permitted(home[u], to)
  /\ live' = (live \ {u}) \cup {nextUid}
  /\ home' = [home EXCEPT ![nextUid] = to]
  /\ body' = [body EXCEPT ![nextUid] = body[u]]
  /\ nextUid' = nextUid + 1
  /\ UNCHANGED <<archive, external>>

Next ==
  \/ Owner
  \/ Save
  \/ \E u \in 1 .. MaxUid, to \in {"Quarantine", "Inbox", "Review"} : Relocate(u, to)

Spec == Init /\ [][Next]_<<mail, archive, external>>
=============================================================================
