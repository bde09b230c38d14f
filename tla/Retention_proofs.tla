-------------------------- MODULE Retention_proofs --------------------------
(***************************************************************************)
(* Proofs about Retention.  An EXPUNGE or an APPEND may reach the server    *)
(* long after the command that sent it has died, and a clean-up works off a *)
(* list it made at its start; the invariants below say what is still true   *)
(* of the journal then, so that the promises about the encrypted copies     *)
(* hold whatever is left of a command.                                      *)
(***************************************************************************)
EXTENDS RetentionProperties, FiniteSetTheorems, TLAPS

(* A path is that of the row's own encrypted copy; a row without one owes
   nothing, and no row owes for longer than a copy made today. *)
Paid(q) ==
  /\ row[q].path # NoPath => row[q].path[1] = row[q].content
  /\ row[q].path = NoPath => row[q].until = 0
  /\ row[q].until <= now + ArchiveDays

PathInv == \A r \in Used : Paid(r)

(* A row waits for its restored copy only when it has no other. *)
Waits(q) ==
  /\ row[q].status = "pending_restore" => ~ Located(q)
  /\ row[q].status = "restored" => row[q].folder = "Review"

ReturnInv == \A r \in Used : Waits(r)

(* The row in hand, step by step, and the rows still to be looked at. *)
JobInv ==
  /\ pc \in {"refetch", "store", "expunge", "await", "rollback", "mark",
             "restore", "append", "finalize"} => job.row \in Used /\ job.row \notin todo
  /\ pc \in {"idle", "restore", "append", "finalize"} => todo = {}
  /\ pc \in {"purge", "refetch", "store", "expunge", "await", "rollback", "mark"} =>
       \A r \in todo : row[r].status = "quarantined"
  /\ pc \in {"refetch", "store", "expunge"} =>
       /\ row[job.row].folder = "Quarantine" /\ row[job.row].uid # 0
       /\ row[job.row].status = "quarantined"
       /\ row[job.row].path \in files /\ ~ HamVeto(row[job.row].content)
  /\ pc = "mark" => row[job.row].status \in {"quarantined", "superseded"}
  /\ pc = "append" => row[job.row].status = "pending_restore"
  /\ pc = "finalize" =>
       /\ row[job.row].status \in {"pending_restore", "restored"}
       /\ job.uid \in Issued /\ home[job.uid] = "Review"
       /\ body[job.uid] = row[job.row].content
  /\ pc = "await" =>
       \/ Expunge(job.row) \in inflight
       \/ Append(job.row) \in inflight /\ todo = {}

(* A command in flight still means what it meant when it was sent, however
   late it is. *)
Deleting(q)  == row[q].folder = "Quarantine" /\ row[q].status \in {"quarantined", "superseded"}
Returning(q) == row[q].status \in {"pending_restore", "restored"}

FlightInv ==
  \A m \in inflight :
    \/ /\ m = Expunge(m.row) /\ Deleting(m.row) /\ m.uid # 0
       /\ pc = "mark" => m.row # job.row
    \/ m = Append(m.row) /\ Returning(m.row)

(* The clean-up holds only what has expired, also between a file and its rows. *)
CleanInv ==
  /\ pc \in {"clean", "clear"} => \A r \in todo : Expired(r)
  /\ pc = "clear" =>
       /\ path # NoPath
       /\ \A r \in todo : row[r].path # path
       /\ \A q \in Used : row[q].path = path => row[q].until <= now /\ row[q].status \notin Needed

(* As long as a copy of a deleted message is owed, a row owes it. *)
OwedInv ==
  \A u \in Uids : expunged[u] # -1 =>
    /\ u \in Issued
    /\ now < expunged[u] =>
         \E r \in Used : row[r].content = body[u] /\ expunged[u] <= row[r].until

(* Where a restored copy comes from. *)
OriginInv ==
  \A u \in Uids : origin[u] # 0 =>
    /\ u \in Issued /\ origin[u] \in Used
    /\ Returning(origin[u]) /\ body[u] = row[origin[u]].content

(* With a server that answers in time nothing is in flight but what is waited
   for, and a copy is asked for only when there is none. *)
PromptInv ==
  /\ inflight # {} => pc = "await"
  /\ \A m \in inflight : m.row = job.row
  /\ \A m \in inflight : m.op = "expunge" =>
       row[m.row].path \in files /\ ~ HamVeto(row[m.row].content)
  /\ pc = "append" \/ (\E m \in inflight : m.op = "append") =>
       \A u \in In("Review") : origin[u] # job.row
  /\ \A u, v \in In("Review") : origin[u] = origin[v] /\ origin[u] # 0 => u = v

IInv ==
  /\ TypeOK /\ RowsNameTheirCopy /\ PathInv /\ ReturnInv
  /\ JobInv /\ FlightInv /\ CleanInv /\ OwedInv /\ OriginInv
  /\ ~ DiskLoses => NeededCopiesKept
  /\ ~ LateReplies => PromptInv

-----------------------------------------------------------------------------
(* What the type of the state says of the pieces the invariants speak of. *)
Typed ==
  /\ now \in Nat /\ nextUid \in Nat \ {0} /\ nextRow \in Nat \ {0}
  /\ LastUid \in Nat /\ MaxRow \in Nat /\ ArchiveDays \in Nat
  /\ Issued \subseteq Uids /\ Uids \subseteq Nat \ {0}
  /\ Used \subseteq RowIds /\ RowIds \subseteq Nat \ {0}
  /\ DOMAIN row = RowIds /\ DOMAIN home = Uids /\ DOMAIN body = Uids
  /\ DOMAIN expunged = Uids /\ DOMAIN origin = Uids
  /\ \A r \in RowIds : row[r].uid \in Nat /\ row[r].until \in Nat
                       /\ row[r].path \in Paths \cup {NoPath}
  /\ \A u \in Uids : expunged[u] \in Int /\ origin[u] \in Nat
  /\ \A p \in Paths : p # NoPath
  /\ live \subseteq Issued /\ todo \subseteq Used /\ files \subseteq Paths
  /\ job.row \in Nat /\ job.uid \in Nat
  /\ \A m \in inflight : m.op \in {"expunge", "append"} /\ m.row \in Used /\ m.uid \in Nat

LEMMA Types == ASSUME TypeOK PROVE Typed
<1>1. LastUid \in Nat
  BY RetentionAssumption DEF LastUid
<1>2. /\ now \in Nat /\ nextUid \in Nat \ {0} /\ nextRow \in Nat \ {0}
      /\ MaxRow \in Nat /\ ArchiveDays \in Nat
  BY RetentionAssumption DEF TypeOK
<1>3. /\ Issued \subseteq Uids /\ Uids \subseteq Nat \ {0}
      /\ Used \subseteq RowIds /\ RowIds \subseteq Nat \ {0}
  BY <1>1, RetentionAssumption DEF RetentionAssumption, TypeOK, Issued, Uids, Used, RowIds
<1>4. /\ DOMAIN row = RowIds /\ DOMAIN home = Uids /\ DOMAIN body = Uids
      /\ DOMAIN expunged = Uids /\ DOMAIN origin = Uids
  BY DEF TypeOK
<1>5. \A r \in RowIds : row[r].uid \in Nat /\ row[r].until \in Nat
                        /\ row[r].path \in Paths \cup {NoPath}
  <2>1. \A r \in RowIds : row[r] \in Row
    BY DEF TypeOK
  <2>2. 0 .. LastUid \subseteq Nat /\ Days \subseteq Nat
    BY DEF Days
  <2> QED BY <2>1, <2>2 DEF Row
<1>6. \A u \in Uids : expunged[u] \in Int /\ origin[u] \in Nat
  BY DEF TypeOK, Days
<1>7. \A p \in Paths : p # NoPath
  <2> SUFFICES ASSUME NEW c \in Contents, NEW k \in 0 .. Month(MaxTime) PROVE <<c, k>> # NoPath
    BY DEF Paths
  <2>1. DOMAIN <<c, k>> = {1, 2} /\ DOMAIN NoPath = {}
    BY DEF NoPath
  <2> QED BY <2>1
<1>8. live \subseteq Issued /\ todo \subseteq Used /\ files \subseteq Paths
  BY DEF TypeOK
<1>9. job.row \in Nat /\ job.uid \in Nat
  BY DEF TypeOK
<1>10. \A m \in inflight : m.op \in {"expunge", "append"} /\ m.row \in Used /\ m.uid \in Nat
  BY DEF TypeOK
<1> QED BY <1>1, <1>2, <1>3, <1>4, <1>5, <1>6, <1>7, <1>8, <1>9, <1>10 DEF Typed

LEMMA DivGrows ==
  ASSUME NEW a \in Nat, NEW b \in Nat, NEW d \in Nat \ {0}, a <= b
  PROVE  (a \div d) \in 0 .. (b \div d)
<1> DEFINE p == a \div d
           q == b \div d
<1>1. p \in Int /\ q \in Int /\ d * p <= a /\ a < d * (p + 1) /\ d * q <= b /\ b < d * (q + 1)
  OBVIOUS
<1> HIDE DEF p, q
<1>2. ASSUME q + 1 <= p PROVE FALSE
  <2>1. d * (q + 1) <= d * p
    BY <1>1, <1>2
  <2> QED BY <1>1, <2>1
<1>3. ASSUME p + 1 <= 0 PROVE FALSE
  <2>1. d * (p + 1) <= d * 0
    BY <1>1, <1>3
  <2> QED BY <1>1, <2>1
<1> QED BY <1>1, <1>2, <1>3 DEF p, q

LEMMA ArchiveType ==
  ASSUME TypeOK, NEW c \in Contents
  PROVE  Archive(c) \in Paths /\ Archive(c)[1] = c
<1>1. Month(now) \in 0 .. Month(MaxTime)
  BY RetentionAssumption DEF TypeOK, Month
<1> QED BY <1>1 DEF Archive, Paths

-----------------------------------------------------------------------------
(* A row that keeps what the invariants speak of, but for its status: a step
   changes one row x, and at most settles others. *)
Same(q) ==
  /\ q \in Used
  /\ row'[q].content = row[q].content /\ row'[q].folder = row[q].folder
  /\ row'[q].uid = row[q].uid /\ row'[q].until = row[q].until /\ row'[q].path = row[q].path

Settled(q) ==
  \/ row'[q].status = row[q].status
  \/ row'[q].status = "superseded" /\ Settleable(row[q].status)

(* The mailbox only gains copies. *)
Grows ==
  /\ Issued \subseteq Issued'
  /\ \A v \in Issued : home'[v] = home[v] /\ body'[v] = body[v]

Fits(q)   == /\ row[q].uid \in Issued /\ home[row[q].uid] = row[q].folder
             /\ body[row[q].uid] = row[q].content
Backed(q) == row[q].path # NoPath /\ (row[q].status \in {"quarantined", "pending_restore", "error"}
                                      \/ now < row[q].until)
               => row[q].path \in files

LEMMA StatusHolds ==
  ASSUME NEW q, Same(q), Settled(q)
  PROVE  (Deleting(q) => Deleting(q)') /\ (Returning(q) => Returning(q)')
<1>1. CASE row'[q].status = row[q].status
  BY <1>1 DEF Same, Deleting, Returning
<1>2. CASE row'[q].status = "superseded" /\ Settleable(row[q].status)
  BY <1>2 DEF Same, Deleting, Returning, Settleable
<1> QED BY <1>1, <1>2 DEF Settled

LEMMA NewUsed ==
  ASSUME nextRow \in Nat \ {0}, nextRow' = nextRow + 1
  PROVE  Used' = Used \cup {nextRow} /\ nextRow \notin Used
  BY DEF Used

LEMMA LocationsHold ==
  ASSUME RowsNameTheirCopy, Grows, NEW x,
         \A q \in Used' : q # x => Same(q),
         x \in Used' /\ Located(x)' => Fits(x)'
  PROVE  RowsNameTheirCopy'
<1> SUFFICES ASSUME NEW q \in Used', Located(q)'
             PROVE  Fits(q)'
  BY DEF RowsNameTheirCopy, Fits
<1>1. CASE q = x
  BY <1>1
<1>2. CASE q # x
  <2>1. Same(q) /\ Located(q)
    BY <1>2 DEF Same, Located
  <2>2. Fits(q)
    BY <2>1 DEF Same, RowsNameTheirCopy, Fits
  <2> QED BY <2>1, <2>2 DEF Same, Fits, Grows
<1> QED BY <1>2

LEMMA PathsHold ==
  ASSUME PathInv, now' = now, NEW x,
         \A q \in Used' : q # x => Same(q), x \in Used' => Paid(x)'
  PROVE  PathInv'
<1> SUFFICES ASSUME NEW q \in Used' PROVE Paid(q)'
  BY DEF PathInv
<1>1. CASE q # x
  <2>1. Same(q) /\ Paid(q)
    BY <1>1 DEF Same, PathInv
  <2> QED BY <2>1 DEF Same, Paid
<1> QED BY <1>1

LEMMA ReturnsHold ==
  ASSUME ReturnInv, NEW x,
         \A q \in Used' : q # x => Same(q) /\ Settled(q), x \in Used' => Waits(x)'
  PROVE  ReturnInv'
<1> SUFFICES ASSUME NEW q \in Used' PROVE Waits(q)'
  BY DEF ReturnInv
<1>1. CASE q # x
  <2>1. Same(q) /\ Settled(q) /\ Waits(q)
    BY <1>1 DEF Same, ReturnInv
  <2> QED BY <2>1 DEF Same, Settled, Waits, Located
<1> QED BY <1>1

LEMMA NeedsHold ==
  ASSUME NeededCopiesKept, now' = now, files \subseteq files', NEW x,
         \A q \in Used' : q # x => Same(q) /\ Settled(q), x \in Used' => Backed(x)'
  PROVE  NeededCopiesKept'
<1> SUFFICES ASSUME NEW q \in Used' PROVE Backed(q)'
  BY DEF NeededCopiesKept, Backed
<1>1. CASE q # x
  <2>1. Same(q) /\ Settled(q) /\ Backed(q)
    BY <1>1 DEF Same, NeededCopiesKept, Backed
  <2> QED BY <2>1 DEF Same, Settled, Backed
<1> QED BY <1>1

LEMMA OwedHolds ==
  ASSUME Typed, OwedInv, Grows, UNCHANGED <<now, expunged>>, NEW x,
         Used \subseteq Used', \A q \in Used : row'[q].until \in Nat,
         \A q \in Used : q # x => Same(q),
         x \in Used => row'[x].content = row[x].content /\ row[x].until <= row'[x].until
  PROVE  OwedInv'
<1> SUFFICES ASSUME NEW u \in Uids, expunged[u] # -1
             PROVE  /\ u \in Issued'
                    /\ now < expunged[u] =>
                         \E r \in Used' : row'[r].content = body'[u] /\ expunged[u] <= row'[r].until
  BY DEF OwedInv
<1>1. u \in Issued /\ u \in Issued' /\ body'[u] = body[u]
  BY DEF OwedInv, Grows
<1>2. ASSUME now < expunged[u]
      PROVE  \E r \in Used' : row'[r].content = body'[u] /\ expunged[u] <= row'[r].until
  <2>1. PICK r \in Used : row[r].content = body[u] /\ expunged[u] <= row[r].until
    BY <1>2 DEF OwedInv
  <2>2. row'[r].content = row[r].content /\ row[r].until <= row'[r].until
    BY DEF Same
  <2>3. expunged[u] \in Int /\ row[r].until \in Int /\ row'[r].until \in Int
    BY DEF Typed
  <2>4. expunged[u] <= row'[r].until
    BY <2>1, <2>2, <2>3
  <2> QED BY <1>1, <2>1, <2>2, <2>4
<1> QED BY <1>1, <1>2

LEMMA OriginsHold ==
  ASSUME Typed, OriginInv, Grows, UNCHANGED origin, NEW x,
         Used \subseteq Used', \A q \in Used : q # x => Same(q) /\ Settled(q),
         x \in Used => row'[x].content = row[x].content /\ (Returning(x) => Returning(x)')
  PROVE  OriginInv'
<1> SUFFICES ASSUME NEW u \in Uids, origin[u] # 0
             PROVE  /\ u \in Issued' /\ origin[u] \in Used'
                    /\ Returning(origin[u])' /\ body'[u] = row'[origin[u]].content
  BY DEF OriginInv
<1>1. u \in Issued /\ origin[u] \in Used /\ Returning(origin[u]) /\ body[u] = row[origin[u]].content
  BY DEF OriginInv
<1>2. u \in Issued' /\ body'[u] = body[u]
  BY <1>1 DEF Grows
<1>3. Returning(origin[u])' /\ row'[origin[u]].content = row[origin[u]].content
  BY <1>1, StatusHolds DEF Same
<1> QED BY <1>1, <1>2, <1>3

(* A row whose EXPUNGE may be in flight. *)
Flying(q) == Deleting(q) /\ row[q].uid # 0 /\ (pc = "mark" => q # job.row)

LEMMA FlightsHold ==
  ASSUME Typed, FlightInv, UNCHANGED inflight, pc' # "mark", NEW x,
         \A q \in Used : q # x => Same(q) /\ Settled(q),
         x \in Used => ~ Flying(x) /\ (Returning(x) => Returning(x)')
  PROVE  FlightInv'
<1> SUFFICES ASSUME NEW m \in inflight
             PROVE  \/ m = [op |-> "expunge", row |-> m.row, uid |-> row'[m.row].uid]
                       /\ Deleting(m.row)' /\ m.uid # 0
                    \/ m = Append(m.row) /\ Returning(m.row)'
  BY DEF FlightInv, Expunge
<1>1. m.row \in Used
  BY DEF Typed
<1>2. CASE m = Append(m.row) /\ Returning(m.row)
  BY <1>1, <1>2, StatusHolds
<1>3. CASE m = Expunge(m.row) /\ Deleting(m.row) /\ m.uid # 0 /\ (pc = "mark" => m.row # job.row)
  <2>1. m.uid = row[m.row].uid /\ m = [op |-> "expunge", row |-> m.row, uid |-> m.uid]
    BY <1>3 DEF Expunge
  <2>2. Flying(m.row)
    BY <1>3, <2>1 DEF Flying
  <2>3. Deleting(m.row)' /\ row'[m.row].uid = row[m.row].uid
    BY <1>1, <1>3, <2>2, StatusHolds DEF Same
  <2> QED BY <1>3, <2>1, <2>3
<1> QED BY <1>2, <1>3 DEF FlightInv

LEMMA JobTypes ==
  ASSUME TypeOK, NEW r \in Used \cup {0}, NEW w \in Uids \cup {0}
  PROVE  [row |-> r, uid |-> w] \in [row : 0 .. MaxRow, uid : 0 .. LastUid]
<1>1. r \in 0 .. MaxRow /\ w \in 0 .. LastUid
  BY RetentionAssumption DEF RetentionAssumption, TypeOK, Used, Uids, LastUid
<1> QED BY <1>1

LEMMA NewRowTypes ==
  ASSUME TypeOK, NEW c \in Contents, NEW f \in Folders, NEW w \in Uids,
         NEW s \in Statuses, NEW v \in BOOLEAN, NEW d \in {0, now}
  PROVE  [content |-> c, folder |-> f, uid |-> w, status |-> s, veto |-> v,
          since |-> d, until |-> now + ArchiveDays, path |-> Archive(c)] \in Row
<1>1. w \in 0 .. LastUid /\ d \in 0 .. MaxTime /\ now + ArchiveDays \in Days
  BY RetentionAssumption DEF RetentionAssumption, TypeOK, Uids, Days
<1>2. Archive(c) \in Paths
  BY ArchiveType
<1> QED BY <1>1, <1>2 DEF Row

LEMMA RowTypes ==
  ASSUME NEW z \in Row, NEW f \in Folders \cup {""}, NEW w \in 0 .. LastUid, NEW s \in Statuses
  PROVE  /\ [z EXCEPT !.status = s] \in Row
         /\ [z EXCEPT !.status = s, !.folder = f] \in Row
         /\ [z EXCEPT !.folder = f, !.uid = w, !.status = s] \in Row
  BY DEF Row

\* With a server that answers in time at most one command is in flight.
LEMMA OneInFlight ==
  ASSUME Typed, FlightInv, PromptInv, NEW m \in inflight, NEW n \in inflight
  PROVE  n = m
<1>1. m.row = n.row
  BY DEF PromptInv
<1>2. ~ (Deleting(m.row) /\ Returning(m.row))
  BY DEF Deleting, Returning
<1> QED BY <1>1, <1>2 DEF FlightInv

LEMMA TickKeeps == ASSUME IInv, Tick PROVE IInv'
<1>a. TypeOK /\ RowsNameTheirCopy /\ PathInv /\ ReturnInv
      /\ JobInv /\ FlightInv /\ CleanInv /\ OwedInv /\ OriginInv
  BY DEF IInv
<1>b. (~ DiskLoses => NeededCopiesKept) /\ (~ LateReplies => PromptInv)
  BY DEF IInv
<1>t. Typed
  BY <1>a, Types
<1>f. /\ UNCHANGED <<live, home, body, flagged, doomed, nextUid, row, nextRow, pc, todo,
                   job, path, expunged, origin, inflight, files>>
      /\ now' = now + 1 /\ pc = "idle"
  BY DEF Tick, Sound, mailbox, journal, engine, history, Idle
<1>1. TypeOK'
  <2>1. (/\ now \in 0 .. MaxTime
           /\ live \subseteq Issued /\ flagged \subseteq Issued /\ doomed \subseteq Issued
           /\ home \in [Uids -> Folders] /\ body \in [Uids -> Contents]
           /\ nextUid \in 1 .. LastUid + 1)'
    BY RetentionAssumption, <1>a
      DEF RetentionAssumption, TypeOK, Tick, Sound, Idle, mailbox, journal, engine,
          history, budget, Issued
  <2>2. (/\ nextRow \in 1 .. MaxRow + 1 /\ row \in [RowIds -> Row] /\ files \subseteq Paths)'
    BY <1>a DEF TypeOK, Tick, Sound, mailbox, journal
  <2>3. (/\ inflight \subseteq [op : {"expunge", "append"}, row : Used, uid : 0 .. LastUid]
           /\ pc \in {"idle", "purge", "refetch", "store", "expunge", "await", "rollback", "mark",
                      "restore", "append", "finalize", "clean", "clear"}
           /\ todo \subseteq Used)'
    BY <1>a DEF TypeOK, Tick, Sound, mailbox, journal, engine, Used
  <2>4. (/\ job \in [row : 0 .. MaxRow, uid : 0 .. LastUid] /\ path \in Paths \cup {NoPath}
           /\ expunged \in [Uids -> Days \cup {-1}] /\ origin \in [Uids -> 0 .. MaxRow])'
    BY <1>a DEF TypeOK, Tick, Sound, mailbox, engine, history
  <2>5. (/\ faults \in 0 .. MaxFaults /\ external \in 0 .. MaxExternal)'
    BY <1>a DEF TypeOK, Sound, budget, Tick
  <2> QED BY <2>1, <2>2, <2>3, <2>4, <2>5 DEF TypeOK
<1>2. RowsNameTheirCopy'
  BY <1>a, <1>f DEF RowsNameTheirCopy, Located, Issued, Used
<1>3. PathInv'
  BY <1>a, <1>t, <1>f DEF PathInv, Paid, Used, Typed
<1>4. ReturnInv'
  BY <1>a, <1>f DEF ReturnInv, Waits, Located, Used
<1>5. JobInv'
  BY <1>a, <1>f DEF JobInv
<1>6. FlightInv'
  BY <1>a, <1>f DEF FlightInv, Expunge, Deleting, Returning
<1>7. CleanInv'
  BY <1>f DEF CleanInv
<1>8. OwedInv'
  <2> SUFFICES ASSUME NEW u \in Uids, expunged[u] # -1
               PROVE  /\ u \in Issued
                      /\ now' < expunged[u] =>
                           \E r \in Used : row[r].content = body[u] /\ expunged[u] <= row[r].until
    BY <1>f DEF OwedInv, Issued, Used
  <2>1. now' < expunged[u] => now < expunged[u]
    BY <1>f, <1>t DEF Typed
  <2> QED BY <1>a, <2>1 DEF OwedInv
<1>9. OriginInv'
  BY <1>a, <1>f DEF OriginInv, Returning, Issued, Used
<1>10. (~ DiskLoses => NeededCopiesKept)'
  BY <1>a, <1>b, <1>t, <1>f DEF NeededCopiesKept, Used, Typed
<1>11. (~ LateReplies => PromptInv)'
  BY <1>b, <1>f DEF PromptInv, In
<1> QED BY <1>1, <1>2, <1>3, <1>4, <1>5, <1>6, <1>7, <1>8, <1>9, <1>10, <1>11 DEF IInv

LEMMA OwnerMovesKeeps == ASSUME NEW u \in Uids, NEW folder \in Folders, IInv, OwnerMoves(u, folder) PROVE IInv'
<1>a. TypeOK /\ RowsNameTheirCopy /\ PathInv /\ ReturnInv
      /\ JobInv /\ FlightInv /\ CleanInv /\ OwedInv /\ OriginInv
  BY DEF IInv
<1>b. (~ DiskLoses => NeededCopiesKept) /\ (~ LateReplies => PromptInv)
  BY DEF IInv
<1>t. Typed
  BY <1>a, Types
<1>f. /\ UNCHANGED <<now, row, nextRow, pc, todo, job, path, expunged, origin, inflight,
                   files>>
      /\ u \in live /\ live' = (live \ {u}) \cup {nextUid}
  BY DEF OwnerMoves, Outside, clock, journal, engine, history
<1>g. /\ nextUid' = nextUid + 1 /\ nextUid \in Uids
      /\ \A v \in Issued : v # nextUid /\ home'[v] = home[v] /\ body'[v] = body[v]
      /\ home'[nextUid] = folder /\ body'[nextUid] = body[u]
  <2>1. /\ nextUid' = nextUid + 1
        /\ home' = [home EXCEPT ![nextUid] = folder] /\ body' = [body EXCEPT ![nextUid] = body[u]]
    BY DEF OwnerMoves, Issue
  <2>2. nextUid \in Uids
    BY <1>t, RetentionAssumption DEF RetentionAssumption, OwnerMoves, Typed, Uids, LastUid
  <2>3. \A v \in Issued : v # nextUid /\ v \in Uids
    BY <1>t DEF Typed, Issued
  <2> QED BY <1>t, <2>1, <2>2, <2>3 DEF Typed
<1>n. Used' = Used
  BY <1>f DEF Used
<1>s. \A q \in Used' : q # 0 => Same(q) /\ Settled(q)
  <2> SUFFICES ASSUME NEW q \in Used', q # 0 PROVE Same(q) /\ Settled(q)
    OBVIOUS
  <2>1. q \in Used /\ q \in RowIds
    BY <1>n, <1>t DEF Typed
  <2>2. row'[q] = row[q]
    BY <1>f
  <2> QED BY <2>1, <2>2 DEF Same, Settled
<1>w. Grows /\ Issued \subseteq Issued' /\ Used \subseteq Used'
  BY <1>n, <1>t, <1>g DEF Grows, Issued, Typed
<1>z. 0 \notin Used /\ 0 \notin Used'
  BY <1>n, <1>t DEF Typed
<1>y. /\ origin[nextUid] = 0 /\ (\A v \in live' : v = nextUid \/ v \in live)
      /\ \A v \in live : v \in Issued /\ home'[v] = home[v]
  <2>1. nextUid \notin Issued
    BY <1>g
  <2> QED BY <1>a, <1>f, <1>g, <1>t DEF OriginInv, Typed
<1>1. TypeOK'
  <2>1. (/\ now \in 0 .. MaxTime
           /\ live \subseteq Issued /\ flagged \subseteq Issued /\ doomed \subseteq Issued
           /\ home \in [Uids -> Folders] /\ body \in [Uids -> Contents]
           /\ nextUid \in 1 .. LastUid + 1)'
    <3>1. Issued' = Issued \cup {nextUid}
      BY <1>g, <1>t DEF Issued, Typed
    <3>2. /\ home' \in [Uids -> Folders] /\ body' \in [Uids -> Contents]
          /\ nextUid' \in 1 .. LastUid + 1
      <4>1. /\ home' = [home EXCEPT ![nextUid] = folder] /\ folder \in Folders
            /\ body' = [body EXCEPT ![nextUid] = body[u]] /\ body[u] \in Contents
        BY <1>a DEF OwnerMoves, Issue, TypeOK
      <4>2. home' \in [Uids -> Folders]
        BY <1>a, <4>1 DEF TypeOK
      <4>3. body' \in [Uids -> Contents]
        BY <1>a, <4>1 DEF TypeOK
      <4>4. nextUid' \in 1 .. LastUid + 1
        BY <1>t, <1>g DEF Uids, Typed
      <4> QED BY <4>2, <4>3, <4>4
    <3>3. live' \subseteq Issued' /\ flagged' \subseteq Issued' /\ doomed' \subseteq Issued'
      BY <1>a, <3>1 DEF OwnerMoves, Follow, TypeOK
    <3> QED BY <1>a, <1>f, <3>2, <3>3 DEF TypeOK
  <2>2. (/\ nextRow \in 1 .. MaxRow + 1 /\ row \in [RowIds -> Row] /\ files \subseteq Paths)'
    BY <1>a DEF TypeOK, OwnerMoves, Outside, journal
  <2>3. (/\ inflight \subseteq [op : {"expunge", "append"}, row : Used, uid : 0 .. LastUid]
           /\ pc \in {"idle", "purge", "refetch", "store", "expunge", "await", "rollback", "mark",
                      "restore", "append", "finalize", "clean", "clear"}
           /\ todo \subseteq Used)'
    BY <1>a DEF TypeOK, OwnerMoves, Outside, clock, journal, engine, Used
  <2>4. (/\ job \in [row : 0 .. MaxRow, uid : 0 .. LastUid] /\ path \in Paths \cup {NoPath}
           /\ expunged \in [Uids -> Days \cup {-1}] /\ origin \in [Uids -> 0 .. MaxRow])'
    BY <1>a DEF TypeOK, OwnerMoves, Outside, engine, history
  <2>5. (/\ faults \in 0 .. MaxFaults /\ external \in 0 .. MaxExternal)'
    BY RetentionAssumption, <1>a DEF TypeOK, Outside, OwnerMoves
  <2> QED BY <2>1, <2>2, <2>3, <2>4, <2>5 DEF TypeOK
<1>2. RowsNameTheirCopy'
  <2>1. 0 \in Used' /\ Located(0)' => Fits(0)'
    BY <1>z
  <2> QED BY <1>a, <1>s, <1>w, <2>1, LocationsHold
<1>3. PathInv'
  BY <1>a, <1>f DEF PathInv, Paid, Used
<1>4. ReturnInv'
  BY <1>a, <1>f DEF ReturnInv, Waits, Located, Used
<1>5. JobInv'
  BY <1>a, <1>t, <1>f, <1>g DEF JobInv, HamVeto, Issued, Used, Expunge, Typed
<1>6. FlightInv'
  BY <1>a, <1>f DEF FlightInv, Expunge, Deleting, Returning
<1>7. CleanInv'
  BY <1>a, <1>f DEF CleanInv, Expired, Used
<1>8. OwedInv'
  <2>1. 0 \in Used => row'[0].content = row[0].content /\ row[0].until <= row'[0].until
    BY <1>t DEF Typed
  <2>2. \A q \in Used : row'[q].until \in Nat
    BY <1>f, <1>t DEF Typed
  <2> QED BY <1>a, <1>f, <1>s, <1>t, <1>w, <2>2, OwedHolds
<1>9. OriginInv'
  <2>1. 0 \in Used => row'[0].content = row[0].content /\ (Returning(0) => Returning(0)')
    BY <1>f DEF Returning
  <2> QED BY <1>a, <1>f, <1>s, <1>t, <1>w, <2>1, OriginsHold
<1>10. (~ DiskLoses => NeededCopiesKept)'
  BY <1>b, <1>f DEF NeededCopiesKept, Used
<1>11. ASSUME ~ LateReplies PROVE PromptInv'
  <2>0. PromptInv
    BY <1>b, <1>11
  <2>1. (inflight # {} => pc = "await")'
    BY <2>0, <1>f DEF PromptInv
  <2>2. (\A m \in inflight : m.row = job.row)'
    BY <2>0, <1>f DEF PromptInv
  <2>3. (\A m \in inflight : m.op = "expunge" =>
         row[m.row].path \in files /\ ~ HamVeto(row[m.row].content))'
    BY <2>0, <1>f DEF PromptInv, HamVeto, Used
  <2>4. (pc = "append" \/ (\E m \in inflight : m.op = "append") =>
         \A w \in In("Review") : origin[w] # job.row)'
    <3> SUFFICES ASSUME pc = "append" \/ (\E m \in inflight : m.op = "append"), NEW w \in In("Review")'
                 PROVE  origin[w] # job.row
      BY <1>f
    <3>1. job.row # 0
      BY <1>a, <1>t, <2>0 DEF PromptInv, JobInv, Typed
    <3>2. CASE w = nextUid
      BY <1>y, <3>1, <3>2
    <3>3. CASE w # nextUid
      <4>1. w \in In("Review")
        BY <1>y, <3>3 DEF In
      <4> QED BY <2>0, <4>1 DEF PromptInv
    <3> QED BY <3>2, <3>3
  <2>5. (\A v, w \in In("Review") : origin[v] = origin[w] /\ origin[v] # 0 => v = w)'
    <3> SUFFICES ASSUME NEW v \in In("Review")', NEW w \in In("Review")',
                        origin[v] = origin[w], origin[v] # 0
                 PROVE  v = w
      BY <1>f
    <3>1. v # nextUid /\ w # nextUid
      BY <1>y
    <3>2. v \in In("Review") /\ w \in In("Review")
      BY <1>y DEF In
    <3> QED BY <2>0, <3>2 DEF PromptInv
  <2> QED BY <2>1, <2>2, <2>3, <2>4, <2>5 DEF PromptInv
<1> QED BY <1>1, <1>2, <1>3, <1>4, <1>5, <1>6, <1>7, <1>8, <1>9, <1>10, <1>11 DEF IInv

LEMMA OwnerCopiesToTrainingKeeps == ASSUME NEW u \in Uids, IInv, OwnerCopiesToTraining(u) PROVE IInv'
<1>a. TypeOK /\ RowsNameTheirCopy /\ PathInv /\ ReturnInv
      /\ JobInv /\ FlightInv /\ CleanInv /\ OwedInv /\ OriginInv
  BY DEF IInv
<1>b. (~ DiskLoses => NeededCopiesKept) /\ (~ LateReplies => PromptInv)
  BY DEF IInv
<1>t. Typed
  BY <1>a, Types
<1>f. /\ UNCHANGED <<now, flagged, doomed, row, nextRow, pc, todo, job, path, expunged,
                   origin, inflight, files>>
      /\ u \in live /\ live' = live \cup {nextUid}
  BY DEF OwnerCopiesToTraining, Outside, clock, journal, engine, history
<1>g. /\ nextUid' = nextUid + 1 /\ nextUid \in Uids
      /\ \A v \in Issued : v # nextUid /\ home'[v] = home[v] /\ body'[v] = body[v]
      /\ home'[nextUid] = "TrainHam" /\ body'[nextUid] = body[u]
  <2>1. /\ nextUid' = nextUid + 1
        /\ home' = [home EXCEPT ![nextUid] = "TrainHam"] /\ body' = [body EXCEPT ![nextUid] = body[u]]
    BY DEF OwnerCopiesToTraining, Issue
  <2>2. nextUid \in Uids
    BY <1>t, RetentionAssumption
      DEF RetentionAssumption, OwnerCopiesToTraining, Typed, Uids, LastUid
  <2>3. \A v \in Issued : v # nextUid /\ v \in Uids
    BY <1>t DEF Typed, Issued
  <2> QED BY <1>t, <2>1, <2>2, <2>3 DEF Typed
<1>n. Used' = Used
  BY <1>f DEF Used
<1>s. \A q \in Used' : q # 0 => Same(q) /\ Settled(q)
  <2> SUFFICES ASSUME NEW q \in Used', q # 0 PROVE Same(q) /\ Settled(q)
    OBVIOUS
  <2>1. q \in Used /\ q \in RowIds
    BY <1>n, <1>t DEF Typed
  <2>2. row'[q] = row[q]
    BY <1>f
  <2> QED BY <2>1, <2>2 DEF Same, Settled
<1>w. Grows /\ Issued \subseteq Issued' /\ Used \subseteq Used'
  BY <1>n, <1>t, <1>g DEF Grows, Issued, Typed
<1>z. 0 \notin Used /\ 0 \notin Used'
  BY <1>n, <1>t DEF Typed
<1>y. /\ origin[nextUid] = 0 /\ (\A v \in live' : v = nextUid \/ v \in live)
      /\ \A v \in live : v \in Issued /\ home'[v] = home[v]
  <2>1. nextUid \notin Issued
    BY <1>g
  <2> QED BY <1>a, <1>f, <1>g, <1>t DEF OriginInv, Typed
<1>1. TypeOK'
  <2>1. (/\ now \in 0 .. MaxTime
           /\ live \subseteq Issued /\ flagged \subseteq Issued /\ doomed \subseteq Issued
           /\ home \in [Uids -> Folders] /\ body \in [Uids -> Contents]
           /\ nextUid \in 1 .. LastUid + 1)'
    <3>1. Issued' = Issued \cup {nextUid}
      BY <1>g, <1>t DEF Issued, Typed
    <3>2. /\ home' \in [Uids -> Folders] /\ body' \in [Uids -> Contents]
          /\ nextUid' \in 1 .. LastUid + 1
      <4>1. /\ home' = [home EXCEPT ![nextUid] = "TrainHam"]
            /\ body' = [body EXCEPT ![nextUid] = body[u]]
            /\ body[u] \in Contents
        BY <1>a DEF OwnerCopiesToTraining, Issue, TypeOK
      <4>2. home' \in [Uids -> Folders]
        BY <1>a, <4>1 DEF TypeOK, Folders
      <4>3. body' \in [Uids -> Contents]
        BY <1>a, <4>1 DEF TypeOK
      <4>4. nextUid' \in 1 .. LastUid + 1
        BY <1>t, <1>g DEF Uids, Typed
      <4> QED BY <4>2, <4>3, <4>4
    <3>3. live' \subseteq Issued' /\ flagged' \subseteq Issued' /\ doomed' \subseteq Issued'
      BY <1>a, <3>1 DEF OwnerCopiesToTraining, TypeOK
    <3> QED BY <1>a, <1>f, <3>2, <3>3 DEF TypeOK
  <2>2. (/\ nextRow \in 1 .. MaxRow + 1 /\ row \in [RowIds -> Row] /\ files \subseteq Paths)'
    BY <1>a DEF TypeOK, OwnerCopiesToTraining, Outside, journal
  <2>3. (/\ inflight \subseteq [op : {"expunge", "append"}, row : Used, uid : 0 .. LastUid]
           /\ pc \in {"idle", "purge", "refetch", "store", "expunge", "await", "rollback", "mark",
                      "restore", "append", "finalize", "clean", "clear"}
           /\ todo \subseteq Used)'
    BY <1>a DEF TypeOK, OwnerCopiesToTraining, Outside, clock, journal, engine, Used
  <2>4. (/\ job \in [row : 0 .. MaxRow, uid : 0 .. LastUid] /\ path \in Paths \cup {NoPath}
           /\ expunged \in [Uids -> Days \cup {-1}] /\ origin \in [Uids -> 0 .. MaxRow])'
    BY <1>a DEF TypeOK, OwnerCopiesToTraining, Outside, engine, history
  <2>5. (/\ faults \in 0 .. MaxFaults /\ external \in 0 .. MaxExternal)'
    BY RetentionAssumption, <1>a DEF TypeOK, Outside, OwnerCopiesToTraining
  <2> QED BY <2>1, <2>2, <2>3, <2>4, <2>5 DEF TypeOK
<1>2. RowsNameTheirCopy'
  <2>1. 0 \in Used' /\ Located(0)' => Fits(0)'
    BY <1>z
  <2> QED BY <1>a, <1>s, <1>w, <2>1, LocationsHold
<1>3. PathInv'
  BY <1>a, <1>f DEF PathInv, Paid, Used
<1>4. ReturnInv'
  BY <1>a, <1>f DEF ReturnInv, Waits, Located, Used
<1>5. JobInv'
  BY <1>a, <1>t, <1>f, <1>g DEF JobInv, HamVeto, Issued, Used, Expunge, Typed
<1>6. FlightInv'
  BY <1>a, <1>f DEF FlightInv, Expunge, Deleting, Returning
<1>7. CleanInv'
  BY <1>a, <1>f DEF CleanInv, Expired, Used
<1>8. OwedInv'
  <2>1. 0 \in Used => row'[0].content = row[0].content /\ row[0].until <= row'[0].until
    BY <1>t DEF Typed
  <2>2. \A q \in Used : row'[q].until \in Nat
    BY <1>f, <1>t DEF Typed
  <2> QED BY <1>a, <1>f, <1>s, <1>t, <1>w, <2>2, OwedHolds
<1>9. OriginInv'
  <2>1. 0 \in Used => row'[0].content = row[0].content /\ (Returning(0) => Returning(0)')
    BY <1>f DEF Returning
  <2> QED BY <1>a, <1>f, <1>s, <1>t, <1>w, <2>1, OriginsHold
<1>10. (~ DiskLoses => NeededCopiesKept)'
  BY <1>b, <1>f DEF NeededCopiesKept, Used
<1>11. ASSUME ~ LateReplies PROVE PromptInv'
  <2>0. PromptInv
    BY <1>b, <1>11
  <2>1. (inflight # {} => pc = "await")'
    BY <2>0, <1>f DEF PromptInv
  <2>2. (\A m \in inflight : m.row = job.row)'
    BY <2>0, <1>f DEF PromptInv
  <2>3. (\A m \in inflight : m.op = "expunge" =>
         row[m.row].path \in files /\ ~ HamVeto(row[m.row].content))'
    BY <2>0, <1>f DEF PromptInv, HamVeto, Used
  <2>4. (pc = "append" \/ (\E m \in inflight : m.op = "append") =>
         \A w \in In("Review") : origin[w] # job.row)'
    <3> SUFFICES ASSUME pc = "append" \/ (\E m \in inflight : m.op = "append"), NEW w \in In("Review")'
                 PROVE  origin[w] # job.row
      BY <1>f
    <3>1. job.row # 0
      BY <1>a, <1>t, <2>0 DEF PromptInv, JobInv, Typed
    <3>2. CASE w = nextUid
      BY <1>y, <3>1, <3>2
    <3>3. CASE w # nextUid
      <4>1. w \in In("Review")
        BY <1>y, <3>3 DEF In
      <4> QED BY <2>0, <4>1 DEF PromptInv
    <3> QED BY <3>2, <3>3
  <2>5. (\A v, w \in In("Review") : origin[v] = origin[w] /\ origin[v] # 0 => v = w)'
    <3> SUFFICES ASSUME NEW v \in In("Review")', NEW w \in In("Review")',
                        origin[v] = origin[w], origin[v] # 0
                 PROVE  v = w
      BY <1>f
    <3>1. v # nextUid /\ w # nextUid
      BY <1>y
    <3>2. v \in In("Review") /\ w \in In("Review")
      BY <1>y DEF In
    <3> QED BY <2>0, <3>2 DEF PromptInv
  <2> QED BY <2>1, <2>2, <2>3, <2>4, <2>5 DEF PromptInv
<1> QED BY <1>1, <1>2, <1>3, <1>4, <1>5, <1>6, <1>7, <1>8, <1>9, <1>10, <1>11 DEF IInv

LEMMA OwnerFlagsKeeps == ASSUME NEW u \in Uids, IInv, OwnerFlags(u) PROVE IInv'
<1>a. TypeOK /\ RowsNameTheirCopy /\ PathInv /\ ReturnInv
      /\ JobInv /\ FlightInv /\ CleanInv /\ OwedInv /\ OriginInv
  BY DEF IInv
<1>b. (~ DiskLoses => NeededCopiesKept) /\ (~ LateReplies => PromptInv)
  BY DEF IInv
<1>t. Typed
  BY <1>a, Types
<1>1. TypeOK'
  <2>1. (/\ now \in 0 .. MaxTime
           /\ live \subseteq Issued /\ flagged \subseteq Issued /\ doomed \subseteq Issued
           /\ home \in [Uids -> Folders] /\ body \in [Uids -> Contents]
           /\ nextUid \in 1 .. LastUid + 1)'
    BY <1>a DEF TypeOK, OwnerFlags, Outside, clock, journal, engine, Issued
  <2>2. (/\ nextRow \in 1 .. MaxRow + 1 /\ row \in [RowIds -> Row] /\ files \subseteq Paths)'
    BY <1>a DEF TypeOK, OwnerFlags, Outside, journal
  <2>3. (/\ inflight \subseteq [op : {"expunge", "append"}, row : Used, uid : 0 .. LastUid]
           /\ pc \in {"idle", "purge", "refetch", "store", "expunge", "await", "rollback", "mark",
                      "restore", "append", "finalize", "clean", "clear"}
           /\ todo \subseteq Used)'
    BY <1>a DEF TypeOK, OwnerFlags, Outside, clock, journal, engine, Used
  <2>4. (/\ job \in [row : 0 .. MaxRow, uid : 0 .. LastUid] /\ path \in Paths \cup {NoPath}
           /\ expunged \in [Uids -> Days \cup {-1}] /\ origin \in [Uids -> 0 .. MaxRow])'
    BY <1>a DEF TypeOK, OwnerFlags, Outside, engine, history
  <2>5. (/\ faults \in 0 .. MaxFaults /\ external \in 0 .. MaxExternal)'
    BY RetentionAssumption, <1>a DEF TypeOK, Outside, OwnerFlags
  <2> QED BY <2>1, <2>2, <2>3, <2>4, <2>5 DEF TypeOK
<1>2. RowsNameTheirCopy'
  BY <1>a DEF RowsNameTheirCopy, Located, Issued, Used, OwnerFlags, Outside, journal
<1>3. PathInv'
  BY <1>a DEF PathInv, Paid, Used, NoPath, OwnerFlags, Outside, clock, journal
<1>4. ReturnInv'
  BY <1>a DEF ReturnInv, Waits, Located, Used, OwnerFlags, Outside, journal
<1>5. JobInv'
  BY <1>a
    DEF JobInv, HamVeto, Issued, Used, Expunge, Append, OwnerFlags, Outside, journal,
        engine
<1>6. FlightInv'
  BY <1>a DEF FlightInv, Expunge, Deleting, Returning, OwnerFlags, Outside, journal, engine
<1>7. CleanInv'
  BY <1>a
    DEF CleanInv, Expired, Used, Terminal, Needed, OwnerFlags, Outside, clock, journal,
        engine
<1>8. OwedInv'
  BY <1>a DEF OwedInv, Issued, Used, OwnerFlags, Outside, clock, journal, history
<1>9. OriginInv'
  BY <1>a DEF OriginInv, Returning, Issued, Used, OwnerFlags, Outside, journal, history
<1>10. (~ DiskLoses => NeededCopiesKept)'
  BY <1>b DEF NeededCopiesKept, Used, OwnerFlags, Outside, clock, journal
<1>11. (~ LateReplies => PromptInv)'
  BY <1>b DEF PromptInv, In, HamVeto, Used, OwnerFlags, Outside, journal, engine, history
<1> QED BY <1>1, <1>2, <1>3, <1>4, <1>5, <1>6, <1>7, <1>8, <1>9, <1>10, <1>11 DEF IInv

LEMMA OwnerDeletesKeeps == ASSUME NEW u \in Uids, IInv, OwnerDeletes(u) PROVE IInv'
<1>a. TypeOK /\ RowsNameTheirCopy /\ PathInv /\ ReturnInv
      /\ JobInv /\ FlightInv /\ CleanInv /\ OwedInv /\ OriginInv
  BY DEF IInv
<1>b. (~ DiskLoses => NeededCopiesKept) /\ (~ LateReplies => PromptInv)
  BY DEF IInv
<1>t. Typed
  BY <1>a, Types
<1>f. /\ UNCHANGED <<now, home, body, nextUid, row, nextRow, pc, todo, job, path,
                   expunged, origin, inflight, files>>
      /\ live' = live \ {u}
  BY DEF OwnerDeletes, Outside, clock, journal, engine, history
<1>1. TypeOK'
  <2>1. (/\ now \in 0 .. MaxTime
           /\ live \subseteq Issued /\ flagged \subseteq Issued /\ doomed \subseteq Issued
           /\ home \in [Uids -> Folders] /\ body \in [Uids -> Contents]
           /\ nextUid \in 1 .. LastUid + 1)'
    BY <1>a, <1>f DEF TypeOK, OwnerDeletes, Issued
  <2>2. (/\ nextRow \in 1 .. MaxRow + 1 /\ row \in [RowIds -> Row] /\ files \subseteq Paths)'
    BY <1>a DEF TypeOK, OwnerDeletes, Outside, journal
  <2>3. (/\ inflight \subseteq [op : {"expunge", "append"}, row : Used, uid : 0 .. LastUid]
           /\ pc \in {"idle", "purge", "refetch", "store", "expunge", "await", "rollback", "mark",
                      "restore", "append", "finalize", "clean", "clear"}
           /\ todo \subseteq Used)'
    BY <1>a DEF TypeOK, OwnerDeletes, Outside, clock, journal, engine, Used
  <2>4. (/\ job \in [row : 0 .. MaxRow, uid : 0 .. LastUid] /\ path \in Paths \cup {NoPath}
           /\ expunged \in [Uids -> Days \cup {-1}] /\ origin \in [Uids -> 0 .. MaxRow])'
    BY <1>a DEF TypeOK, OwnerDeletes, Outside, engine, history
  <2>5. (/\ faults \in 0 .. MaxFaults /\ external \in 0 .. MaxExternal)'
    BY RetentionAssumption, <1>a DEF TypeOK, Outside, OwnerDeletes
  <2> QED BY <2>1, <2>2, <2>3, <2>4, <2>5 DEF TypeOK
<1>2. RowsNameTheirCopy'
  BY <1>a, <1>f DEF RowsNameTheirCopy, Located, Issued, Used
<1>3. PathInv'
  BY <1>a, <1>f DEF PathInv, Paid, Used
<1>4. ReturnInv'
  BY <1>a, <1>f DEF ReturnInv, Waits, Located, Used
<1>5. JobInv'
  BY <1>a, <1>f DEF JobInv, HamVeto, Issued, Used, Expunge
<1>6. FlightInv'
  BY <1>a, <1>f DEF FlightInv, Expunge, Deleting, Returning
<1>7. CleanInv'
  BY <1>a, <1>f DEF CleanInv, Expired, Used
<1>8. OwedInv'
  BY <1>a, <1>f DEF OwedInv, Issued, Used
<1>9. OriginInv'
  BY <1>a, <1>f DEF OriginInv, Returning, Issued, Used
<1>10. (~ DiskLoses => NeededCopiesKept)'
  BY <1>b, <1>f DEF NeededCopiesKept, Used
<1>11. ASSUME ~ LateReplies PROVE PromptInv'
  <2>0. PromptInv
    BY <1>b, <1>11
  <2>1. (inflight # {} => pc = "await")'
    BY <2>0, <1>f DEF PromptInv
  <2>2. (\A m \in inflight : m.row = job.row)'
    BY <2>0, <1>f DEF PromptInv
  <2>3. (\A m \in inflight : m.op = "expunge" =>
         row[m.row].path \in files /\ ~ HamVeto(row[m.row].content))'
    BY <2>0, <1>f DEF PromptInv, HamVeto, Used
  <2>4. (pc = "append" \/ (\E m \in inflight : m.op = "append") =>
         \A w \in In("Review") : origin[w] # job.row)'
    BY <2>0, <1>f DEF PromptInv, In
  <2>5. (\A v, w \in In("Review") : origin[v] = origin[w] /\ origin[v] # 0 => v = w)'
    BY <2>0, <1>f DEF PromptInv, In
  <2> QED BY <2>1, <2>2, <2>3, <2>4, <2>5 DEF PromptInv
<1> QED BY <1>1, <1>2, <1>3, <1>4, <1>5, <1>6, <1>7, <1>8, <1>9, <1>10, <1>11 DEF IInv

LEMMA ArchiveLostKeeps == ASSUME NEW p \in Paths, IInv, ArchiveLost(p) PROVE IInv'
<1>a. TypeOK /\ RowsNameTheirCopy /\ PathInv /\ ReturnInv
      /\ JobInv /\ FlightInv /\ CleanInv /\ OwedInv /\ OriginInv
  BY DEF IInv
<1>b. (~ DiskLoses => NeededCopiesKept) /\ (~ LateReplies => PromptInv)
  BY DEF IInv
<1>t. Typed
  BY <1>a, Types
<1>f. /\ UNCHANGED <<now, live, home, body, flagged, doomed, nextUid, row, nextRow, pc,
                   todo, job, path, expunged, origin, inflight>>
      /\ pc = "idle" /\ DiskLoses /\ files' = files \ {p}
  BY DEF ArchiveLost, Fault, clock, mailbox, journal, engine, history, Idle
<1>1. TypeOK'
  <2>1. (/\ now \in 0 .. MaxTime
           /\ live \subseteq Issued /\ flagged \subseteq Issued /\ doomed \subseteq Issued
           /\ home \in [Uids -> Folders] /\ body \in [Uids -> Contents]
           /\ nextUid \in 1 .. LastUid + 1)'
    BY <1>a DEF TypeOK, ArchiveLost, Fault, clock, mailbox, Issued
  <2>2. (/\ nextRow \in 1 .. MaxRow + 1 /\ row \in [RowIds -> Row] /\ files \subseteq Paths)'
    BY <1>a, <1>f DEF TypeOK
  <2>3. (/\ inflight \subseteq [op : {"expunge", "append"}, row : Used, uid : 0 .. LastUid]
           /\ pc \in {"idle", "purge", "refetch", "store", "expunge", "await", "rollback", "mark",
                      "restore", "append", "finalize", "clean", "clear"}
           /\ todo \subseteq Used)'
    BY <1>a DEF TypeOK, ArchiveLost, Fault, clock, mailbox, journal, engine, Used
  <2>4. (/\ job \in [row : 0 .. MaxRow, uid : 0 .. LastUid] /\ path \in Paths \cup {NoPath}
           /\ expunged \in [Uids -> Days \cup {-1}] /\ origin \in [Uids -> 0 .. MaxRow])'
    BY <1>a DEF TypeOK, ArchiveLost, Fault, clock, engine, history
  <2>5. (/\ faults \in 0 .. MaxFaults /\ external \in 0 .. MaxExternal)'
    BY RetentionAssumption, <1>a DEF TypeOK, Fault, ArchiveLost
  <2> QED BY <2>1, <2>2, <2>3, <2>4, <2>5 DEF TypeOK
<1>2. RowsNameTheirCopy'
  BY <1>a, <1>f DEF RowsNameTheirCopy, Located, Issued, Used
<1>3. PathInv'
  BY <1>a, <1>f DEF PathInv, Paid, Used
<1>4. ReturnInv'
  BY <1>a, <1>f DEF ReturnInv, Waits, Located, Used
<1>5. JobInv'
  BY <1>a, <1>f DEF JobInv
<1>6. FlightInv'
  BY <1>a, <1>f DEF FlightInv, Expunge, Deleting, Returning
<1>7. CleanInv'
  BY <1>a, <1>f DEF CleanInv
<1>8. OwedInv'
  BY <1>a, <1>f DEF OwedInv, Issued, Used
<1>9. OriginInv'
  BY <1>a, <1>f DEF OriginInv, Returning, Issued, Used
<1>10. (~ DiskLoses => NeededCopiesKept)'
  BY <1>f
<1>11. ASSUME ~ LateReplies PROVE PromptInv'
  <2>0. PromptInv
    BY <1>b, <1>11
  <2>1. (inflight # {} => pc = "await")'
    BY <2>0, <1>f DEF PromptInv
  <2>2. (\A m \in inflight : m.row = job.row)'
    BY <2>0, <1>f DEF PromptInv
  <2>3. (\A m \in inflight : m.op = "expunge" =>
         row[m.row].path \in files /\ ~ HamVeto(row[m.row].content))'
    BY <2>0, <1>f DEF PromptInv
  <2>4. (pc = "append" \/ (\E m \in inflight : m.op = "append") =>
         \A w \in In("Review") : origin[w] # job.row)'
    BY <2>0, <1>f DEF PromptInv
  <2>5. (\A v, w \in In("Review") : origin[v] = origin[w] /\ origin[v] # 0 => v = w)'
    BY <2>0, <1>f DEF PromptInv, In
  <2> QED BY <2>1, <2>2, <2>3, <2>4, <2>5 DEF PromptInv
<1> QED BY <1>1, <1>2, <1>3, <1>4, <1>5, <1>6, <1>7, <1>8, <1>9, <1>10, <1>11 DEF IInv

LEMMA RunMovesKeeps == ASSUME NEW c \in Contents, NEW folder \in {"Quarantine", "Review"}, IInv, RunMoves(c, folder) PROVE IInv'
<1>a. TypeOK /\ RowsNameTheirCopy /\ PathInv /\ ReturnInv
      /\ JobInv /\ FlightInv /\ CleanInv /\ OwedInv /\ OriginInv
  BY DEF IInv
<1>b. (~ DiskLoses => NeededCopiesKept) /\ (~ LateReplies => PromptInv)
  BY DEF IInv
<1>t. Typed
  BY <1>a, Types
<1>f. /\ UNCHANGED <<now, flagged, doomed, pc, todo, job, path, expunged, origin,
                   inflight>>
      /\ pc = "idle" /\ live' = live \cup {nextUid}
  BY DEF RunMoves, Outside, clock, engine, history, Idle
<1>g. /\ nextUid' = nextUid + 1 /\ nextUid \in Uids
      /\ \A v \in Issued : v # nextUid /\ home'[v] = home[v] /\ body'[v] = body[v]
      /\ home'[nextUid] = folder /\ body'[nextUid] = c
  <2>1. /\ nextUid' = nextUid + 1
        /\ home' = [home EXCEPT ![nextUid] = folder] /\ body' = [body EXCEPT ![nextUid] = c]
    BY DEF RunMoves, Issue
  <2>2. nextUid \in Uids
    BY <1>t, RetentionAssumption DEF RetentionAssumption, RunMoves, Typed, Uids, LastUid
  <2>3. \A v \in Issued : v # nextUid /\ v \in Uids
    BY <1>t DEF Typed, Issued
  <2> QED BY <1>t, <2>1, <2>2, <2>3 DEF Typed
<1>r. /\ nextRow \in RowIds /\ nextRow' = nextRow + 1 /\ DOMAIN row' = RowIds
      /\ \A q \in RowIds : q # nextRow => row'[q] = row[q]
      /\ row'[nextRow].content = c /\ row'[nextRow].folder = folder
      /\ row'[nextRow].uid = nextUid /\ row'[nextRow].status \in {"quarantined", "review"}
      /\ row'[nextRow].until = now + ArchiveDays /\ row'[nextRow].path = Archive(c)
      /\ ~ row'[nextRow].veto
  <2>1. nextRow \in RowIds /\ nextRow' = nextRow + 1
    BY <1>t DEF RunMoves, Typed, RowIds
  <2>2. PICK s \in {"quarantined", "review"}, d \in {0, now} :
          row' = [row EXCEPT ![nextRow] = [content |-> c, folder |-> folder, uid |-> nextUid,
                    status |-> s, veto |-> FALSE, since |-> d, until |-> now + ArchiveDays,
                    path |-> Archive(c)]]
    BY DEF RunMoves, NewRow
  <2> QED BY <1>t, <2>1, <2>2 DEF Typed
<1>p. Archive(c) \in Paths /\ Archive(c)[1] = c /\ Archive(c) \in files' /\ files \subseteq files'
  BY <1>a, ArchiveType DEF RunMoves
<1>x. PICK x \in Nat : x = nextRow
  BY <1>t DEF Typed
<1>n. Used' = Used \cup {nextRow} /\ x \notin Used
  BY <1>r, <1>t, <1>x, NewUsed DEF Typed
<1>s. \A q \in Used' : q # x => Same(q) /\ Settled(q)
  <2> SUFFICES ASSUME NEW q \in Used', q # x PROVE Same(q) /\ Settled(q)
    OBVIOUS
  <2>1. q \in Used /\ q \in RowIds
    BY <1>n, <1>t, <1>x DEF Typed
  <2>2. row'[q] = row[q]
    BY <1>r, <1>x, <2>1
  <2> QED BY <2>1, <2>2 DEF Same, Settled
<1>w. Grows /\ Issued \subseteq Issued' /\ Used \subseteq Used'
  BY <1>n, <1>t, <1>g DEF Grows, Issued, Typed
<1>y. /\ origin[nextUid] = 0 /\ (\A v \in live' : v = nextUid \/ v \in live)
      /\ \A v \in live : v \in Issued /\ home'[v] = home[v]
  <2>1. nextUid \notin Issued
    BY <1>g
  <2> QED BY <1>a, <1>f, <1>g, <1>t DEF OriginInv, Typed
<1>1. TypeOK'
  <2>1. (/\ now \in 0 .. MaxTime
           /\ live \subseteq Issued /\ flagged \subseteq Issued /\ doomed \subseteq Issued
           /\ home \in [Uids -> Folders] /\ body \in [Uids -> Contents]
           /\ nextUid \in 1 .. LastUid + 1)'
    <3>1. Issued' = Issued \cup {nextUid}
      BY <1>g, <1>t DEF Issued, Typed
    <3>2. /\ home' \in [Uids -> Folders] /\ body' \in [Uids -> Contents]
          /\ nextUid' \in 1 .. LastUid + 1
      <4>1. /\ home' = [home EXCEPT ![nextUid] = folder]
            /\ body' = [body EXCEPT ![nextUid] = c]
            /\ c \in Contents
        BY DEF RunMoves, Issue
      <4>2. home' \in [Uids -> Folders]
        BY <1>a, <4>1 DEF TypeOK, Folders
      <4>3. body' \in [Uids -> Contents]
        BY <1>a, <4>1 DEF TypeOK
      <4>4. nextUid' \in 1 .. LastUid + 1
        BY <1>t, <1>g DEF Uids, Typed
      <4> QED BY <4>2, <4>3, <4>4
    <3>3. live' \subseteq Issued' /\ flagged' \subseteq Issued' /\ doomed' \subseteq Issued'
      BY <1>a, <3>1 DEF RunMoves, TypeOK
    <3> QED BY <1>a, <1>f, <3>2, <3>3 DEF TypeOK
  <2>2. (/\ nextRow \in 1 .. MaxRow + 1 /\ row \in [RowIds -> Row] /\ files \subseteq Paths)'
    <3>1. PICK s \in Statuses, d \in {0, now} :
            row' = [row EXCEPT ![nextRow] = [content |-> c, folder |-> folder, uid |-> nextUid,
                      status |-> s, veto |-> FALSE, since |-> d, until |-> now + ArchiveDays,
                      path |-> Archive(c)]]
      BY DEF RunMoves, NewRow, Statuses
    <3>2. folder \in Folders
      BY DEF Folders
    <3>3. row' \in [RowIds -> Row]
      <4>1. [content |-> c, folder |-> folder, uid |-> nextUid, status |-> s, veto |-> FALSE,
             since |-> d, until |-> now + ArchiveDays, path |-> Archive(c)] \in Row
        BY <1>a, <1>g, <3>2, NewRowTypes
      <4> QED BY <1>a, <3>1, <4>1 DEF TypeOK
    <3>4. nextRow' \in 1 .. MaxRow + 1
      BY <1>r, <1>t DEF Typed, RowIds
    <3> QED BY <1>a, <1>p, <3>3, <3>4 DEF TypeOK, RunMoves
  <2>3. (/\ inflight \subseteq [op : {"expunge", "append"}, row : Used, uid : 0 .. LastUid]
           /\ pc \in {"idle", "purge", "refetch", "store", "expunge", "await", "rollback", "mark",
                      "restore", "append", "finalize", "clean", "clear"}
           /\ todo \subseteq Used)'
    <3>1. Used \subseteq Used'
      BY <1>w
    <3> QED BY <1>a, <1>f, <3>1 DEF TypeOK
  <2>4. (/\ job \in [row : 0 .. MaxRow, uid : 0 .. LastUid] /\ path \in Paths \cup {NoPath}
           /\ expunged \in [Uids -> Days \cup {-1}] /\ origin \in [Uids -> 0 .. MaxRow])'
    BY <1>a DEF TypeOK, RunMoves, engine, history
  <2>5. (/\ faults \in 0 .. MaxFaults /\ external \in 0 .. MaxExternal)'
    BY RetentionAssumption, <1>a DEF TypeOK, Outside, RunMoves
  <2> QED BY <2>1, <2>2, <2>3, <2>4, <2>5 DEF TypeOK
<1>2. RowsNameTheirCopy'
  <2>1. nextUid \in Issued'
    BY <1>g, <1>t DEF Issued, Typed
  <2>2. Fits(x)'
    BY <1>g, <1>r, <1>x, <2>1 DEF Fits
  <2> QED BY <1>a, <1>s, <1>w, <2>2, LocationsHold
<1>3. PathInv'
  <2>1. x \in Used' => Paid(x)'
    BY <1>a, <1>t, <1>f, <1>g, <1>r, <1>p, <1>x DEF Paid, Typed
  <2> QED BY <1>a, <1>f, <1>s, <2>1, PathsHold
<1>4. ReturnInv'
  <2>1. x \in Used' => Waits(x)'
    BY <1>a, <1>r, <1>x DEF Waits
  <2> QED BY <1>a, <1>s, <2>1, ReturnsHold
<1>5. JobInv'
  BY <1>a, <1>f DEF JobInv
<1>6. FlightInv'
  <2>1. x \in Used => ~ Flying(x) /\ (Returning(x) => Returning(x)')
    BY <1>a, <1>n
  <2> QED BY <1>a, <1>f, <1>s, <1>t, <1>w, <2>1, FlightsHold
<1>7. CleanInv'
  BY <1>f DEF CleanInv
<1>8. OwedInv'
  <2>1. x \in Used => row'[x].content = row[x].content /\ row[x].until <= row'[x].until
    BY <1>n
  <2>2. \A q \in Used : row'[q].until \in Nat
    BY <1>r, <1>t DEF Typed
  <2> QED BY <1>a, <1>f, <1>s, <1>t, <1>w, <2>1, <2>2, OwedHolds
<1>9. OriginInv'
  <2>1. x \in Used => row'[x].content = row[x].content /\ (Returning(x) => Returning(x)')
    BY <1>n
  <2> QED BY <1>a, <1>f, <1>s, <1>t, <1>w, <2>1, OriginsHold
<1>10. (~ DiskLoses => NeededCopiesKept)'
  <2> SUFFICES ASSUME ~ DiskLoses PROVE NeededCopiesKept'
    OBVIOUS
  <2>1. x \in Used' => Backed(x)'
    BY <1>a, <1>g, <1>r, <1>p, <1>x DEF Backed
  <2> QED BY <1>b, <1>f, <1>p, <1>s, <2>1, NeedsHold
<1>11. ASSUME ~ LateReplies PROVE PromptInv'
  <2>0. PromptInv
    BY <1>b, <1>11
  <2>1. inflight' = {} /\ pc' = "idle"
    BY <1>f, <2>0 DEF PromptInv
  <2>2. (\A v, w \in In("Review") : origin[v] = origin[w] /\ origin[v] # 0 => v = w)'
    <3> SUFFICES ASSUME NEW v \in In("Review")', NEW w \in In("Review")',
                        origin[v] = origin[w], origin[v] # 0
                 PROVE  v = w
      BY <1>f
    <3>1. v # nextUid /\ w # nextUid
      BY <1>y
    <3>2. v \in In("Review") /\ w \in In("Review")
      BY <1>y DEF In
    <3> QED BY <2>0, <3>2 DEF PromptInv
  <2> QED BY <2>1, <2>2 DEF PromptInv
<1> QED BY <1>1, <1>2, <1>3, <1>4, <1>5, <1>6, <1>7, <1>8, <1>9, <1>10, <1>11 DEF IInv

LEMMA RunCorrectsKeeps == ASSUME NEW u \in Uids, NEW r \in RowIds, IInv, RunCorrects(u, r) PROVE IInv'
<1>a. TypeOK /\ RowsNameTheirCopy /\ PathInv /\ ReturnInv
      /\ JobInv /\ FlightInv /\ CleanInv /\ OwedInv /\ OriginInv
  BY DEF IInv
<1>b. (~ DiskLoses => NeededCopiesKept) /\ (~ LateReplies => PromptInv)
  BY DEF IInv
<1>t. Typed
  BY <1>a, Types
<1>f. /\ UNCHANGED <<now, pc, todo, job, path, expunged, origin, inflight>>
      /\ pc = "idle" /\ u \in live /\ live' = (live \ {u}) \cup {nextUid}
  BY DEF RunCorrects, Sound, clock, engine, history, Idle, In
<1>g. /\ nextUid' = nextUid + 1 /\ nextUid \in Uids
      /\ \A v \in Issued : v # nextUid /\ home'[v] = home[v] /\ body'[v] = body[v]
      /\ home'[nextUid] = "Elsewhere" /\ body'[nextUid] = body[u]
  <2>0. Issue(nextUid, "Elsewhere", body[u]) /\ nextUid <= MaxUid
    BY DEF RunCorrects
  <2>1. /\ nextUid' = nextUid + 1
        /\ home' = [home EXCEPT ![nextUid] = "Elsewhere"] /\ body' = [body EXCEPT ![nextUid] = body[u]]
    BY <2>0 DEF Issue
  <2>2. nextUid \in Uids
    BY <1>t, <2>0, RetentionAssumption DEF Typed, Uids, LastUid
  <2>3. \A v \in Issued : v # nextUid /\ v \in Uids
    BY <1>t DEF Typed, Issued
  <2> QED BY <1>t, <2>1, <2>2, <2>3 DEF Typed
<1>r. /\ nextRow' \in {nextRow, nextRow + 1} /\ nextRow' <= MaxRow + 1 /\ r < nextRow'
      /\ DOMAIN row' = RowIds
      /\ \/ r = nextRow /\ nextRow' = nextRow + 1
         \/ /\ nextRow' = nextRow /\ r \in Used /\ row[r].content = body[u]
            /\ row[r].folder = "TrainHam" /\ row[r].uid # 0
      /\ \A q \in RowIds : q # r =>
           \/ row'[q] = row[q]
           \/ /\ row'[q] = [row[q] EXCEPT !.status = "superseded"]
              /\ row[q].status \notin {"purged", "restored", "pending_restore", "superseded"}
              /\ row'[q].status = "superseded"
              /\ row'[q].content = row[q].content /\ row'[q].folder = row[q].folder
              /\ row'[q].uid = row[q].uid /\ row'[q].veto = row[q].veto
              /\ row'[q].until = row[q].until /\ row'[q].path = row[q].path
      /\ row'[r] = [content |-> body[u], folder |-> "Elsewhere", uid |-> nextUid, status |-> "rescued",
                    veto |-> TRUE, since |-> 0, until |-> now + ArchiveDays, path |-> Archive(body[u])]
      /\ row'[r].content = body[u] /\ row'[r].folder = "Elsewhere"
      /\ row'[r].uid = nextUid /\ row'[r].status = "rescued"
      /\ row'[r].until = now + ArchiveDays /\ row'[r].path = Archive(body[u])
      /\ body[u] \in Contents
  <2>1. r \in RowAt("TrainHam", u) => r \in Used /\ row[r].content = body[u] /\ row[r].folder = "TrainHam" /\ row[r].uid # 0
    BY <1>a, <1>t DEF RowAt, RowsNameTheirCopy, Located, Typed
  <2>2. body[u] \in Contents
    BY <1>a DEF TypeOK
  <2> DEFINE moved == NewRow(r, body[u], "Elsewhere", nextUid, "rescued", TRUE, 0)
  <2>3. row' = [q \in RowIds |->
                  IF q # r /\ q \in Used /\ row[q].content = body[u] /\ Settleable(row[q].status)
                  THEN [row[q] EXCEPT !.status = "superseded"]
                  ELSE moved[q]]
    BY DEF RunCorrects
  <2>4. \A q \in RowIds : q # r => moved[q] = row[q]
    BY DEF NewRow
  <2>5. moved[r] = [content |-> body[u], folder |-> "Elsewhere", uid |-> nextUid, status |-> "rescued",
                     veto |-> TRUE, since |-> 0, until |-> now + ArchiveDays, path |-> Archive(body[u])]
    BY <1>t DEF NewRow, Typed
  <2> HIDE DEF moved
  <2>6. row'[r] = moved[r]
    BY <2>3
  <2>7. \A q \in RowIds : q # r =>
           \/ row'[q] = row[q]
           \/ Settleable(row[q].status) /\ row'[q] = [row[q] EXCEPT !.status = "superseded"]
    BY <2>3, <2>4
  <2>8. \A q \in RowIds : row[q] \in Row
    BY <1>a DEF TypeOK
  <2>9. \A q \in RowIds : q # r =>
           \/ row'[q] = row[q]
           \/ /\ row'[q] = [row[q] EXCEPT !.status = "superseded"]
              /\ row[q].status \notin {"purged", "restored", "pending_restore", "superseded"}
              /\ row'[q].status = "superseded"
              /\ row'[q].content = row[q].content /\ row'[q].folder = row[q].folder
              /\ row'[q].uid = row[q].uid /\ row'[q].veto = row[q].veto
              /\ row'[q].until = row[q].until /\ row'[q].path = row[q].path
    <3> TAKE q \in RowIds
    <3> HAVE q # r
    <3>1. CASE row'[q] = row[q]
      BY <3>1
    <3>2. CASE Settleable(row[q].status) /\ row'[q] = [row[q] EXCEPT !.status = "superseded"]
      BY <3>2 DEF Settleable
    <3> QED BY <2>7, <3>2
  <2>10. /\ nextRow' \in {nextRow, nextRow + 1} /\ nextRow' <= MaxRow + 1 /\ r < nextRow'
         /\ (r = nextRow /\ nextRow' = nextRow + 1) \/ (nextRow' = nextRow /\ r \in RowAt("TrainHam", u))
    <3>1. CASE r = nextRow
      BY <1>t, <3>1 DEF RunCorrects, Typed, RowIds
    <3>2. CASE r # nextRow
      <4>1. r \in RowAt("TrainHam", u) /\ nextRow' = nextRow
        BY <3>2 DEF RunCorrects
      <4> QED BY <1>a, <4>1 DEF RowAt, Used, TypeOK
    <3> QED BY <3>1, <3>2
  <2> QED BY <2>1, <2>2, <2>3, <2>5, <2>6, <2>9, <2>10
<1>p. Archive(body[u]) \in Paths /\ Archive(body[u])[1] = body[u] /\ Archive(body[u]) \in files' /\ files \subseteq files'
  BY <1>a, ArchiveType DEF RunCorrects, TypeOK
<1>n. \/ Used' = Used /\ r \in Used
      \/ Used' = Used \cup {r} /\ r \notin Used
  <2>1. CASE nextRow' = nextRow /\ r \in Used
    BY <2>1 DEF Used
  <2>2. CASE r = nextRow /\ nextRow' = nextRow + 1
    BY <1>t, <2>2, NewUsed DEF Typed
  <2> QED BY <1>r, <2>1, <2>2
<1>s. \A q \in Used' : q # r => Same(q) /\ Settled(q)
  <2> SUFFICES ASSUME NEW q \in Used', q # r PROVE Same(q) /\ Settled(q)
    OBVIOUS
  <2>1. q \in Used /\ q \in RowIds
    BY <1>n, <1>t DEF Typed
  <2>2. CASE row'[q] = row[q]
    BY <2>1, <2>2 DEF Same, Settled
  <2>3. CASE row'[q] # row[q]
    <3>1. /\ row[q].status \notin {"purged", "restored", "pending_restore", "superseded"}
          /\ row'[q].status = "superseded"
          /\ row'[q].content = row[q].content /\ row'[q].folder = row[q].folder
          /\ row'[q].uid = row[q].uid
          /\ row'[q].until = row[q].until /\ row'[q].path = row[q].path
      BY <1>r, <2>1, <2>3
    <3> QED BY <2>1, <3>1 DEF Same, Settled, Settleable
  <2> QED BY <2>2, <2>3
<1>w. Grows /\ Issued \subseteq Issued' /\ Used \subseteq Used'
  BY <1>n, <1>t, <1>g DEF Grows, Issued, Typed
<1>y. /\ origin[nextUid] = 0 /\ (\A v \in live' : v = nextUid \/ v \in live)
      /\ \A v \in live : v \in Issued /\ home'[v] = home[v]
  <2>1. nextUid \notin Issued
    BY <1>g
  <2> QED BY <1>a, <1>f, <1>g, <1>t DEF OriginInv, Typed
<1>q. r \in Used => /\ row[r].content = body[u] /\ ~ Deleting(r) /\ ~ Returning(r)
                    /\ row[r].until <= row'[r].until
  <2> SUFFICES ASSUME r \in Used
               PROVE  /\ row[r].content = body[u] /\ ~ Deleting(r) /\ ~ Returning(r)
                      /\ row[r].until <= row'[r].until
    OBVIOUS
  <2>1. row[r].folder = "TrainHam" /\ row[r].uid # 0 /\ row[r].content = body[u]
    <3>1. r # nextRow
      BY DEF Used
    <3> QED BY <1>r, <3>1
  <2>2. Waits(r) /\ Paid(r)
    BY <1>a DEF ReturnInv, PathInv
  <2>3. row[r].until <= row'[r].until
    BY <1>r, <2>2 DEF Paid
  <2> QED BY <2>1, <2>2, <2>3 DEF Waits, Located, Deleting, Returning
<1>1. TypeOK'
  <2>1. (/\ now \in 0 .. MaxTime
           /\ live \subseteq Issued /\ flagged \subseteq Issued /\ doomed \subseteq Issued
           /\ home \in [Uids -> Folders] /\ body \in [Uids -> Contents]
           /\ nextUid \in 1 .. LastUid + 1)'
    <3>1. Issued' = Issued \cup {nextUid}
      BY <1>g, <1>t DEF Issued, Typed
    <3>2. /\ home' \in [Uids -> Folders] /\ body' \in [Uids -> Contents]
          /\ nextUid' \in 1 .. LastUid + 1
      <4>1. /\ home' = [home EXCEPT ![nextUid] = "Elsewhere"]
            /\ body' = [body EXCEPT ![nextUid] = body[u]]
            /\ body[u] \in Contents
        BY <1>a DEF RunCorrects, Issue, TypeOK
      <4>2. home' \in [Uids -> Folders]
        BY <1>a, <4>1 DEF TypeOK, Folders
      <4>3. body' \in [Uids -> Contents]
        BY <1>a, <4>1 DEF TypeOK
      <4>4. nextUid' \in 1 .. LastUid + 1
        BY <1>t, <1>g DEF Uids, Typed
      <4> QED BY <4>2, <4>3, <4>4
    <3>3. live' \subseteq Issued' /\ flagged' \subseteq Issued' /\ doomed' \subseteq Issued'
      BY <1>a, <3>1 DEF RunCorrects, Follow, TypeOK
    <3> QED BY <1>a, <1>f, <3>2, <3>3 DEF TypeOK
  <2>2. (/\ nextRow \in 1 .. MaxRow + 1 /\ row \in [RowIds -> Row] /\ files \subseteq Paths)'
    <3>1. \A q \in RowIds : row'[q] \in Row
      <4>1. "Elsewhere" \in Folders /\ "rescued" \in Statuses /\ "superseded" \in Statuses
        BY DEF Folders, Statuses
      <4>2. row'[r] \in Row
        <5>1. body[u] \in Contents /\ nextUid \in Uids
          BY <1>g, <1>r
        <5>2. [content |-> body[u], folder |-> "Elsewhere", uid |-> nextUid, status |-> "rescued",
               veto |-> TRUE, since |-> 0, until |-> now + ArchiveDays, path |-> Archive(body[u])] \in Row
          BY <1>a, <4>1, <5>1, NewRowTypes
        <5> QED BY <1>r, <5>2
      <4>3. ASSUME NEW q \in RowIds, q # r PROVE row'[q] \in Row
        <5>1. row[q] \in Row /\ (row'[q] = row[q] \/ row'[q] = [row[q] EXCEPT !.status = "superseded"])
          BY <1>a, <1>r, <4>3 DEF TypeOK
        <5> QED BY <4>1, <5>1 DEF Row
      <4> QED BY <4>2, <4>3
    <3>2. row' = [q \in RowIds |-> row'[q]]
      BY DEF RunCorrects
    <3>3. row' \in [RowIds -> Row]
      BY <3>1, <3>2
    <3>4. nextRow' \in 1 .. MaxRow + 1
      BY <1>r, <1>t DEF Typed
    <3> QED BY <1>a, <1>p, <3>3, <3>4 DEF TypeOK, RunCorrects
  <2>3. (/\ inflight \subseteq [op : {"expunge", "append"}, row : Used, uid : 0 .. LastUid]
           /\ pc \in {"idle", "purge", "refetch", "store", "expunge", "await", "rollback", "mark",
                      "restore", "append", "finalize", "clean", "clear"}
           /\ todo \subseteq Used)'
    <3>1. Used \subseteq Used'
      BY <1>w
    <3> QED BY <1>a, <1>f, <3>1 DEF TypeOK
  <2>4. (/\ job \in [row : 0 .. MaxRow, uid : 0 .. LastUid] /\ path \in Paths \cup {NoPath}
           /\ expunged \in [Uids -> Days \cup {-1}] /\ origin \in [Uids -> 0 .. MaxRow])'
    BY <1>a DEF TypeOK, RunCorrects, Sound, engine, history
  <2>5. (/\ faults \in 0 .. MaxFaults /\ external \in 0 .. MaxExternal)'
    BY <1>a DEF TypeOK, Sound, budget, RunCorrects
  <2> QED BY <2>1, <2>2, <2>3, <2>4, <2>5 DEF TypeOK
<1>2. RowsNameTheirCopy'
  <2>1. r \in Used' /\ Located(r)' => Fits(r)'
    BY <1>a, <1>t, <1>g, <1>r DEF Fits, Issued, Typed
  <2> QED BY <1>a, <1>s, <1>w, <2>1, LocationsHold
<1>3. PathInv'
  <2>1. r \in Used' => Paid(r)'
    BY <1>a, <1>t, <1>f, <1>g, <1>r, <1>p DEF Paid, Typed
  <2> QED BY <1>a, <1>f, <1>s, <2>1, PathsHold
<1>4. ReturnInv'
  <2>1. r \in Used' => Waits(r)'
    BY <1>r DEF Waits
  <2> QED BY <1>a, <1>s, <2>1, ReturnsHold
<1>5. JobInv'
  BY <1>a, <1>f DEF JobInv
<1>6. FlightInv'
  <2>1. r \in Used => ~ Flying(r) /\ (Returning(r) => Returning(r)')
    BY <1>q DEF Flying
  <2> QED BY <1>a, <1>f, <1>s, <1>t, <1>w, <2>1, FlightsHold
<1>7. CleanInv'
  BY <1>f DEF CleanInv
<1>8. OwedInv'
  <2>1. r \in Used => row'[r].content = row[r].content /\ row[r].until <= row'[r].until
    BY <1>q, <1>r
  <2>2. \A q \in Used : row'[q].until \in Nat
    BY <1>r, <1>t DEF Typed
  <2> QED BY <1>a, <1>f, <1>s, <1>t, <1>w, <2>1, <2>2, OwedHolds
<1>9. OriginInv'
  <2>1. r \in Used => row'[r].content = row[r].content /\ (Returning(r) => Returning(r)')
    BY <1>q, <1>r
  <2> QED BY <1>a, <1>f, <1>s, <1>t, <1>w, <2>1, OriginsHold
<1>10. (~ DiskLoses => NeededCopiesKept)'
  <2> SUFFICES ASSUME ~ DiskLoses PROVE NeededCopiesKept'
    OBVIOUS
  <2>1. r \in Used' => Backed(r)'
    BY <1>a, <1>g, <1>r, <1>p DEF Backed
  <2> QED BY <1>b, <1>f, <1>p, <1>s, <2>1, NeedsHold
<1>11. ASSUME ~ LateReplies PROVE PromptInv'
  <2>0. PromptInv
    BY <1>b, <1>11
  <2>1. inflight' = {} /\ pc' = "idle"
    BY <1>f, <2>0 DEF PromptInv
  <2>2. (\A v, w \in In("Review") : origin[v] = origin[w] /\ origin[v] # 0 => v = w)'
    <3> SUFFICES ASSUME NEW v \in In("Review")', NEW w \in In("Review")',
                        origin[v] = origin[w], origin[v] # 0
                 PROVE  v = w
      BY <1>f
    <3>1. v # nextUid /\ w # nextUid
      BY <1>y
    <3>2. v \in In("Review") /\ w \in In("Review")
      BY <1>y DEF In
    <3> QED BY <2>0, <3>2 DEF PromptInv
  <2> QED BY <2>1, <2>2 DEF PromptInv
<1> QED BY <1>1, <1>2, <1>3, <1>4, <1>5, <1>6, <1>7, <1>8, <1>9, <1>10, <1>11 DEF IInv

LEMMA RunFailsToLearnKeeps == ASSUME NEW u \in Uids, NEW r \in RowIds, IInv, RunFailsToLearn(u, r) PROVE IInv'
<1>a. TypeOK /\ RowsNameTheirCopy /\ PathInv /\ ReturnInv
      /\ JobInv /\ FlightInv /\ CleanInv /\ OwedInv /\ OriginInv
  BY DEF IInv
<1>b. (~ DiskLoses => NeededCopiesKept) /\ (~ LateReplies => PromptInv)
  BY DEF IInv
<1>t. Typed
  BY <1>a, Types
<1>f. /\ UNCHANGED <<now, live, home, body, flagged, doomed, nextUid, pc, todo, job,
                   path, expunged, origin, inflight>>
      /\ pc = "idle"
  BY DEF RunFailsToLearn, Fault, clock, mailbox, engine, history, Idle
<1>r. /\ nextRow' \in {nextRow, nextRow + 1} /\ nextRow' <= MaxRow + 1 /\ r < nextRow'
      /\ DOMAIN row' = RowIds
      /\ \/ r = nextRow /\ nextRow' = nextRow + 1
         \/ /\ nextRow' = nextRow /\ r \in Used /\ row[r].content = body[u]
            /\ row[r].folder = "TrainHam" /\ row[r].uid # 0
      /\ \A q \in RowIds : q # r => row'[q] = row[q]
      /\ row'[r].content = body[u] /\ row'[r].folder = "TrainHam"
      /\ row'[r].uid = u /\ row'[r].status = "error"
      /\ row'[r].until = now + ArchiveDays /\ row'[r].path = Archive(body[u])
      /\ body[u] \in Contents /\ u \in Issued /\ home[u] = "TrainHam"
  <2>1. r \in RowAt("TrainHam", u) => r \in Used /\ row[r].content = body[u] /\ row[r].folder = "TrainHam" /\ row[r].uid # 0
    BY <1>a, <1>t DEF RowAt, RowsNameTheirCopy, Located, Typed
  <2>2. body[u] \in Contents /\ u \in Issued /\ home[u] = "TrainHam"
    BY <1>a DEF TypeOK, RunFailsToLearn, In
  <2>3. row' = [row EXCEPT ![r] = [content |-> body[u], folder |-> "TrainHam", uid |-> u, status |-> "error",
                     veto |-> TRUE, since |-> 0, until |-> now + ArchiveDays, path |-> Archive(body[u])]]
    BY DEF RunFailsToLearn, NewRow
  <2>4. /\ nextRow' \in {nextRow, nextRow + 1} /\ nextRow' <= MaxRow + 1 /\ r < nextRow'
        /\ (r = nextRow /\ nextRow' = nextRow + 1) \/ (nextRow' = nextRow /\ r \in RowAt("TrainHam", u))
    <3>1. CASE r = nextRow
      BY <1>t, <3>1 DEF RunFailsToLearn, Typed, RowIds
    <3>2. CASE r # nextRow
      <4>1. r \in RowAt("TrainHam", u) /\ nextRow' = nextRow
        BY <3>2 DEF RunFailsToLearn
      <4> QED BY <1>a, <4>1 DEF RowAt, Used, TypeOK
    <3> QED BY <3>1, <3>2
  <2> QED BY <1>t, <2>1, <2>2, <2>3, <2>4 DEF Typed
<1>p. Archive(body[u]) \in Paths /\ Archive(body[u])[1] = body[u] /\ Archive(body[u]) \in files' /\ files \subseteq files'
  BY <1>a, ArchiveType DEF RunFailsToLearn, TypeOK
<1>n. \/ Used' = Used /\ r \in Used
      \/ Used' = Used \cup {r} /\ r \notin Used
  <2>1. CASE nextRow' = nextRow /\ r \in Used
    BY <2>1 DEF Used
  <2>2. CASE r = nextRow /\ nextRow' = nextRow + 1
    BY <1>t, <2>2, NewUsed DEF Typed
  <2> QED BY <1>r, <2>1, <2>2
<1>s. \A q \in Used' : q # r => Same(q) /\ Settled(q)
  <2> SUFFICES ASSUME NEW q \in Used', q # r PROVE Same(q) /\ Settled(q)
    OBVIOUS
  <2>1. q \in Used /\ q \in RowIds
    BY <1>n, <1>t DEF Typed
  <2>2. row'[q] = row[q]
    BY <1>r, <2>1
  <2> QED BY <2>1, <2>2 DEF Same, Settled
<1>w. Grows /\ Issued \subseteq Issued' /\ Used \subseteq Used'
  BY <1>f, <1>n DEF Grows, Issued
<1>q. r \in Used => /\ row[r].content = body[u] /\ ~ Deleting(r) /\ ~ Returning(r)
                    /\ row[r].until <= row'[r].until
  <2> SUFFICES ASSUME r \in Used
               PROVE  /\ row[r].content = body[u] /\ ~ Deleting(r) /\ ~ Returning(r)
                      /\ row[r].until <= row'[r].until
    OBVIOUS
  <2>1. row[r].folder = "TrainHam" /\ row[r].uid # 0 /\ row[r].content = body[u]
    <3>1. r # nextRow
      BY DEF Used
    <3> QED BY <1>r, <3>1
  <2>2. Waits(r) /\ Paid(r)
    BY <1>a DEF ReturnInv, PathInv
  <2>3. row[r].until <= row'[r].until
    BY <1>r, <2>2 DEF Paid
  <2> QED BY <2>1, <2>2, <2>3 DEF Waits, Located, Deleting, Returning
<1>1. TypeOK'
  <2>1. (/\ now \in 0 .. MaxTime
           /\ live \subseteq Issued /\ flagged \subseteq Issued /\ doomed \subseteq Issued
           /\ home \in [Uids -> Folders] /\ body \in [Uids -> Contents]
           /\ nextUid \in 1 .. LastUid + 1)'
    BY <1>a DEF TypeOK, RunFailsToLearn, Fault, clock, mailbox, Issued
  <2>2. (/\ nextRow \in 1 .. MaxRow + 1 /\ row \in [RowIds -> Row] /\ files \subseteq Paths)'
    <3>1. row' = [row EXCEPT ![r] = [content |-> body[u], folder |-> "TrainHam", uid |-> u,
                   status |-> "error", veto |-> TRUE, since |-> 0, until |-> now + ArchiveDays,
                   path |-> Archive(body[u])]]
      BY DEF RunFailsToLearn, NewRow
    <3>2. "TrainHam" \in Folders /\ "error" \in Statuses
      BY DEF Folders, Statuses
    <3>3. row' \in [RowIds -> Row]
      <4>1. u \in Uids /\ body[u] \in Contents
        BY <1>r
      <4>2. [content |-> body[u], folder |-> "TrainHam", uid |-> u, status |-> "error", veto |-> TRUE,
             since |-> 0, until |-> now + ArchiveDays, path |-> Archive(body[u])] \in Row
        BY <1>a, <3>2, <4>1, NewRowTypes
      <4> QED BY <1>a, <3>1, <4>2 DEF TypeOK
    <3>4. nextRow' \in 1 .. MaxRow + 1
      BY <1>r, <1>t DEF Typed
    <3> QED BY <1>a, <1>p, <3>3, <3>4 DEF TypeOK, RunFailsToLearn
  <2>3. (/\ inflight \subseteq [op : {"expunge", "append"}, row : Used, uid : 0 .. LastUid]
           /\ pc \in {"idle", "purge", "refetch", "store", "expunge", "await", "rollback", "mark",
                      "restore", "append", "finalize", "clean", "clear"}
           /\ todo \subseteq Used)'
    <3>1. Used \subseteq Used'
      BY <1>w
    <3> QED BY <1>a, <1>f, <3>1 DEF TypeOK
  <2>4. (/\ job \in [row : 0 .. MaxRow, uid : 0 .. LastUid] /\ path \in Paths \cup {NoPath}
           /\ expunged \in [Uids -> Days \cup {-1}] /\ origin \in [Uids -> 0 .. MaxRow])'
    BY <1>a DEF TypeOK, RunFailsToLearn, Fault, engine, history
  <2>5. (/\ faults \in 0 .. MaxFaults /\ external \in 0 .. MaxExternal)'
    BY RetentionAssumption, <1>a DEF TypeOK, Fault, RunFailsToLearn
  <2> QED BY <2>1, <2>2, <2>3, <2>4, <2>5 DEF TypeOK
<1>2. RowsNameTheirCopy'
  <2>1. r \in Used' /\ Located(r)' => Fits(r)'
    BY <1>a, <1>f, <1>r DEF Fits, Issued
  <2> QED BY <1>a, <1>s, <1>w, <2>1, LocationsHold
<1>3. PathInv'
  <2>1. r \in Used' => Paid(r)'
    BY <1>a, <1>t, <1>f, <1>r, <1>p DEF Paid, Typed
  <2> QED BY <1>a, <1>f, <1>s, <2>1, PathsHold
<1>4. ReturnInv'
  <2>1. r \in Used' => Waits(r)'
    BY <1>r DEF Waits
  <2> QED BY <1>a, <1>s, <2>1, ReturnsHold
<1>5. JobInv'
  BY <1>a, <1>f DEF JobInv
<1>6. FlightInv'
  <2>1. r \in Used => ~ Flying(r) /\ (Returning(r) => Returning(r)')
    BY <1>q DEF Flying
  <2> QED BY <1>a, <1>f, <1>s, <1>t, <1>w, <2>1, FlightsHold
<1>7. CleanInv'
  BY <1>f DEF CleanInv
<1>8. OwedInv'
  <2>1. r \in Used => row'[r].content = row[r].content /\ row[r].until <= row'[r].until
    BY <1>q, <1>r
  <2>2. ASSUME NEW q \in Used PROVE row'[q].until \in Nat
    <3>1. q \in RowIds /\ row[q].until \in Nat /\ now + ArchiveDays \in Nat
      BY <1>t DEF Typed
    <3>2. row'[q].until \in {row[q].until, now + ArchiveDays}
      BY <1>r, <3>1
    <3> QED BY <3>1, <3>2
  <2>3. /\ UNCHANGED <<now, expunged>> /\ OwedInv /\ Typed /\ Grows /\ Used \subseteq Used'
        /\ \A q \in Used : q # r => Same(q)
    BY <1>a, <1>f, <1>s, <1>t, <1>w
  <2>4. \A q \in Used : row'[q].until \in Nat
    BY <2>2, <2>3
  <2> QED BY <2>1, <2>3, <2>4, OwedHolds
<1>9. OriginInv'
  <2>1. r \in Used => row'[r].content = row[r].content /\ (Returning(r) => Returning(r)')
    BY <1>q, <1>r
  <2> QED BY <1>a, <1>f, <1>s, <1>t, <1>w, <2>1, OriginsHold
<1>10. (~ DiskLoses => NeededCopiesKept)'
  <2> SUFFICES ASSUME ~ DiskLoses PROVE NeededCopiesKept'
    OBVIOUS
  <2>1. r \in Used' => Backed(r)'
    BY <1>a, <1>r, <1>p DEF Backed
  <2> QED BY <1>b, <1>f, <1>p, <1>s, <2>1, NeedsHold
<1>11. ASSUME ~ LateReplies PROVE PromptInv'
  <2>0. PromptInv
    BY <1>b, <1>11
  <2>1. (inflight # {} => pc = "await")'
    BY <2>0, <1>f DEF PromptInv
  <2>2. (\A m \in inflight : m.row = job.row)'
    BY <2>0, <1>f DEF PromptInv
  <2>3. (\A m \in inflight : m.op = "expunge" =>
         row[m.row].path \in files /\ ~ HamVeto(row[m.row].content))'
    BY <2>0, <1>f DEF PromptInv
  <2>4. (pc = "append" \/ (\E m \in inflight : m.op = "append") =>
         \A w \in In("Review") : origin[w] # job.row)'
    BY <2>0, <1>f DEF PromptInv
  <2>5. (\A v, w \in In("Review") : origin[v] = origin[w] /\ origin[v] # 0 => v = w)'
    BY <2>0, <1>f DEF PromptInv, In
  <2> QED BY <2>1, <2>2, <2>3, <2>4, <2>5 DEF PromptInv
<1> QED BY <1>1, <1>2, <1>3, <1>4, <1>5, <1>6, <1>7, <1>8, <1>9, <1>10, <1>11 DEF IInv

LEMMA PurgeStartKeeps == ASSUME IInv, PurgeStart PROVE IInv'
<1>a. TypeOK /\ RowsNameTheirCopy /\ PathInv /\ ReturnInv
      /\ JobInv /\ FlightInv /\ CleanInv /\ OwedInv /\ OriginInv
  BY DEF IInv
<1>b. (~ DiskLoses => NeededCopiesKept) /\ (~ LateReplies => PromptInv)
  BY DEF IInv
<1>t. Typed
  BY <1>a, Types
<1>1. TypeOK'
  <2>1. (/\ now \in 0 .. MaxTime
           /\ live \subseteq Issued /\ flagged \subseteq Issued /\ doomed \subseteq Issued
           /\ home \in [Uids -> Folders] /\ body \in [Uids -> Contents]
           /\ nextUid \in 1 .. LastUid + 1)'
    BY <1>a DEF TypeOK, PurgeStart, Sound, clock, mailbox, Issued
  <2>2. (/\ nextRow \in 1 .. MaxRow + 1 /\ row \in [RowIds -> Row] /\ files \subseteq Paths)'
    BY <1>a DEF TypeOK, PurgeStart, Sound, clock, journal
  <2>3. (/\ inflight \subseteq [op : {"expunge", "append"}, row : Used, uid : 0 .. LastUid]
           /\ pc \in {"idle", "purge", "refetch", "store", "expunge", "await", "rollback", "mark",
                      "restore", "append", "finalize", "clean", "clear"}
           /\ todo \subseteq Used)'
    BY <1>a
      DEF TypeOK, PurgeStart, Sound, Idle, In, PurgeCandidates, clock, mailbox, journal,
          Used
  <2>4. (/\ job \in [row : 0 .. MaxRow, uid : 0 .. LastUid] /\ path \in Paths \cup {NoPath}
           /\ expunged \in [Uids -> Days \cup {-1}] /\ origin \in [Uids -> 0 .. MaxRow])'
    BY <1>a DEF TypeOK, PurgeStart, Sound, clock, history
  <2>5. (/\ faults \in 0 .. MaxFaults /\ external \in 0 .. MaxExternal)'
    BY <1>a DEF TypeOK, Sound, budget, PurgeStart
  <2> QED BY <2>1, <2>2, <2>3, <2>4, <2>5 DEF TypeOK
<1>2. RowsNameTheirCopy'
  BY <1>a
    DEF RowsNameTheirCopy, Located, Issued, Used, PurgeStart, Sound, clock, mailbox,
        journal
<1>3. PathInv'
  BY <1>a DEF PathInv, Paid, Used, NoPath, PurgeStart, Sound, clock, journal
<1>4. ReturnInv'
  BY <1>a DEF ReturnInv, Waits, Located, Used, PurgeStart, Sound, clock, journal
<1>5. JobInv'
  BY <1>a DEF PurgeStart, Sound, Idle, In, PurgeCandidates, clock, mailbox, journal, JobInv
<1>6. FlightInv'
  BY <1>a
    DEF PurgeStart, Sound, Idle, In, PurgeCandidates, clock, mailbox, journal, history,
        budget, FlightInv, Expunge, Deleting, Returning
<1>7. CleanInv'
  BY <1>a DEF PurgeStart, Idle, CleanInv
<1>8. OwedInv'
  BY <1>a DEF OwedInv, Issued, Used, PurgeStart, Sound, clock, mailbox, journal, history
<1>9. OriginInv'
  BY <1>a
    DEF OriginInv, Returning, Issued, Used, PurgeStart, Sound, clock, mailbox, journal,
        history
<1>10. (~ DiskLoses => NeededCopiesKept)'
  BY <1>b DEF NeededCopiesKept, Used, PurgeStart, Sound, clock, journal
<1>11. ASSUME ~ LateReplies PROVE PromptInv'
  <2>0. PromptInv
    BY <1>b, <1>11
  <2>1. (inflight # {} => pc = "await")'
    BY <2>0, <1>a DEF PurgeStart, Idle, PromptInv
  <2>2. (\A m \in inflight : m.row = job.row)'
    BY <2>0 DEF PurgeStart, PromptInv
  <2>3. (\A m \in inflight : m.op = "expunge" =>
         row[m.row].path \in files /\ ~ HamVeto(row[m.row].content))'
    BY <2>0
      DEF PurgeStart, Sound, clock, mailbox, journal, history, PromptInv, HamVeto, Used
  <2>4. (pc = "append" \/ (\E m \in inflight : m.op = "append") =>
         \A w \in In("Review") : origin[w] # job.row)'
    BY <2>0, <1>a DEF PurgeStart, Idle, PromptInv
  <2>5. (\A v, w \in In("Review") : origin[v] = origin[w] /\ origin[v] # 0 => v = w)'
    BY <2>0 DEF PurgeStart, Sound, clock, mailbox, journal, history, PromptInv, In
  <2> QED BY <2>1, <2>2, <2>3, <2>4, <2>5 DEF PromptInv
<1> QED BY <1>1, <1>2, <1>3, <1>4, <1>5, <1>6, <1>7, <1>8, <1>9, <1>10, <1>11 DEF IInv

LEMMA PurgeVetsKeeps == ASSUME NEW r \in RowIds, IInv, PurgeVets(r) PROVE IInv'
<1>a. TypeOK /\ RowsNameTheirCopy /\ PathInv /\ ReturnInv
      /\ JobInv /\ FlightInv /\ CleanInv /\ OwedInv /\ OriginInv
  BY DEF IInv
<1>b. (~ DiskLoses => NeededCopiesKept) /\ (~ LateReplies => PromptInv)
  BY DEF IInv
<1>t. Typed
  BY <1>a, Types
<1>1. TypeOK'
  <2>1. (/\ now \in 0 .. MaxTime
           /\ live \subseteq Issued /\ flagged \subseteq Issued /\ doomed \subseteq Issued
           /\ home \in [Uids -> Folders] /\ body \in [Uids -> Contents]
           /\ nextUid \in 1 .. LastUid + 1)'
    BY <1>a DEF TypeOK, PurgeVets, Sound, clock, mailbox, Issued
  <2>2. (/\ nextRow \in 1 .. MaxRow + 1 /\ row \in [RowIds -> Row] /\ files \subseteq Paths)'
    BY <1>a DEF TypeOK, PurgeVets, Sound, clock, journal
  <2>3. (/\ inflight \subseteq [op : {"expunge", "append"}, row : Used, uid : 0 .. LastUid]
           /\ pc \in {"idle", "purge", "refetch", "store", "expunge", "await", "rollback", "mark",
                      "restore", "append", "finalize", "clean", "clear"}
           /\ todo \subseteq Used)'
    BY <1>a DEF TypeOK, PurgeVets, Sound, Vetted, clock, mailbox, journal, Used
  <2>4. (/\ job \in [row : 0 .. MaxRow, uid : 0 .. LastUid] /\ path \in Paths \cup {NoPath}
           /\ expunged \in [Uids -> Days \cup {-1}] /\ origin \in [Uids -> 0 .. MaxRow])'
    <3>1. job' = [row |-> r, uid |-> row[r].uid] /\ UNCHANGED <<path, expunged, origin>>
      BY DEF PurgeVets, history
    <3>2. r \in Used /\ row[r].uid \in Uids \cup {0}
      BY <1>a, <1>t DEF PurgeVets, Vetted, Intact, Typed
    <3> QED BY <1>a, <3>1, <3>2, JobTypes DEF TypeOK
  <2>5. (/\ faults \in 0 .. MaxFaults /\ external \in 0 .. MaxExternal)'
    BY <1>a DEF TypeOK, Sound, budget, PurgeVets
  <2> QED BY <2>1, <2>2, <2>3, <2>4, <2>5 DEF TypeOK
<1>2. RowsNameTheirCopy'
  BY <1>a
    DEF RowsNameTheirCopy, Located, Issued, Used, PurgeVets, Sound, clock, mailbox,
        journal
<1>3. PathInv'
  BY <1>a DEF PathInv, Paid, Used, NoPath, PurgeVets, Sound, clock, journal
<1>4. ReturnInv'
  BY <1>a DEF ReturnInv, Waits, Located, Used, PurgeVets, Sound, clock, journal
<1>5. JobInv'
  BY <1>a, <1>t
    DEF PurgeVets, Sound, Vetted, clock, mailbox, journal, history, budget, JobInv,
        HamVeto, Used, Typed
<1>6. FlightInv'
  BY <1>a
    DEF PurgeVets, Sound, Vetted, clock, mailbox, journal, history, budget, FlightInv,
        Expunge, Deleting, Returning
<1>7. CleanInv'
  BY <1>a DEF PurgeVets, CleanInv
<1>8. OwedInv'
  BY <1>a DEF OwedInv, Issued, Used, PurgeVets, Sound, clock, mailbox, journal, history
<1>9. OriginInv'
  BY <1>a
    DEF OriginInv, Returning, Issued, Used, PurgeVets, Sound, clock, mailbox, journal,
        history
<1>10. (~ DiskLoses => NeededCopiesKept)'
  BY <1>b DEF NeededCopiesKept, Used, PurgeVets, Sound, clock, journal
<1>11. ASSUME ~ LateReplies PROVE PromptInv'
  <2>0. PromptInv
    BY <1>b, <1>11
  <2>1. (inflight # {} => pc = "await")'
    BY <2>0 DEF PurgeVets, PromptInv
  <2>2. (\A m \in inflight : m.row = job.row)'
    BY <2>0 DEF PurgeVets, PromptInv
  <2>3. (\A m \in inflight : m.op = "expunge" =>
         row[m.row].path \in files /\ ~ HamVeto(row[m.row].content))'
    BY <2>0 DEF PurgeVets, PromptInv
  <2>4. (pc = "append" \/ (\E m \in inflight : m.op = "append") =>
         \A w \in In("Review") : origin[w] # job.row)'
    BY <2>0, <1>a DEF PurgeVets, PromptInv
  <2>5. (\A v, w \in In("Review") : origin[v] = origin[w] /\ origin[v] # 0 => v = w)'
    BY <2>0 DEF PurgeVets, Sound, clock, mailbox, journal, history, PromptInv, In
  <2> QED BY <2>1, <2>2, <2>3, <2>4, <2>5 DEF PromptInv
<1> QED BY <1>1, <1>2, <1>3, <1>4, <1>5, <1>6, <1>7, <1>8, <1>9, <1>10, <1>11 DEF IInv

LEMMA PurgeSkipsKeeps == ASSUME NEW r \in RowIds, IInv, PurgeSkips(r) PROVE IInv'
<1>a. TypeOK /\ RowsNameTheirCopy /\ PathInv /\ ReturnInv
      /\ JobInv /\ FlightInv /\ CleanInv /\ OwedInv /\ OriginInv
  BY DEF IInv
<1>b. (~ DiskLoses => NeededCopiesKept) /\ (~ LateReplies => PromptInv)
  BY DEF IInv
<1>t. Typed
  BY <1>a, Types
<1>1. TypeOK'
  <2>1. (/\ now \in 0 .. MaxTime
           /\ live \subseteq Issued /\ flagged \subseteq Issued /\ doomed \subseteq Issued
           /\ home \in [Uids -> Folders] /\ body \in [Uids -> Contents]
           /\ nextUid \in 1 .. LastUid + 1)'
    BY <1>a DEF TypeOK, PurgeSkips, Sound, clock, mailbox, Issued
  <2>2. (/\ nextRow \in 1 .. MaxRow + 1 /\ row \in [RowIds -> Row] /\ files \subseteq Paths)'
    BY <1>a DEF TypeOK, PurgeSkips, Sound, clock, journal
  <2>3. (/\ inflight \subseteq [op : {"expunge", "append"}, row : Used, uid : 0 .. LastUid]
           /\ pc \in {"idle", "purge", "refetch", "store", "expunge", "await", "rollback", "mark",
                      "restore", "append", "finalize", "clean", "clear"}
           /\ todo \subseteq Used)'
    BY <1>a DEF TypeOK, PurgeSkips, Sound, clock, mailbox, journal, Used
  <2>4. (/\ job \in [row : 0 .. MaxRow, uid : 0 .. LastUid] /\ path \in Paths \cup {NoPath}
           /\ expunged \in [Uids -> Days \cup {-1}] /\ origin \in [Uids -> 0 .. MaxRow])'
    BY <1>a DEF TypeOK, PurgeSkips, Sound, clock, history
  <2>5. (/\ faults \in 0 .. MaxFaults /\ external \in 0 .. MaxExternal)'
    BY <1>a DEF TypeOK, Sound, budget, PurgeSkips
  <2> QED BY <2>1, <2>2, <2>3, <2>4, <2>5 DEF TypeOK
<1>2. RowsNameTheirCopy'
  BY <1>a
    DEF RowsNameTheirCopy, Located, Issued, Used, PurgeSkips, Sound, clock, mailbox,
        journal
<1>3. PathInv'
  BY <1>a DEF PathInv, Paid, Used, NoPath, PurgeSkips, Sound, clock, journal
<1>4. ReturnInv'
  BY <1>a DEF ReturnInv, Waits, Located, Used, PurgeSkips, Sound, clock, journal
<1>5. JobInv'
  BY <1>a DEF PurgeSkips, Sound, clock, mailbox, journal, JobInv
<1>6. FlightInv'
  BY <1>a DEF FlightInv, Expunge, Deleting, Returning, PurgeSkips, Sound, clock, journal
<1>7. CleanInv'
  BY DEF PurgeSkips, CleanInv
<1>8. OwedInv'
  BY <1>a DEF OwedInv, Issued, Used, PurgeSkips, Sound, clock, mailbox, journal, history
<1>9. OriginInv'
  BY <1>a
    DEF OriginInv, Returning, Issued, Used, PurgeSkips, Sound, clock, mailbox, journal,
        history
<1>10. (~ DiskLoses => NeededCopiesKept)'
  BY <1>b DEF NeededCopiesKept, Used, PurgeSkips, Sound, clock, journal
<1>11. (~ LateReplies => PromptInv)'
  BY <1>b DEF PromptInv, In, PurgeSkips, Sound, clock, mailbox, history
<1> QED BY <1>1, <1>2, <1>3, <1>4, <1>5, <1>6, <1>7, <1>8, <1>9, <1>10, <1>11 DEF IInv

LEMMA PurgeEndsKeeps == ASSUME IInv, PurgeEnds PROVE IInv'
<1>a. TypeOK /\ RowsNameTheirCopy /\ PathInv /\ ReturnInv
      /\ JobInv /\ FlightInv /\ CleanInv /\ OwedInv /\ OriginInv
  BY DEF IInv
<1>b. (~ DiskLoses => NeededCopiesKept) /\ (~ LateReplies => PromptInv)
  BY DEF IInv
<1>t. Typed
  BY <1>a, Types
<1>1. TypeOK'
  <2>1. (/\ now \in 0 .. MaxTime
           /\ live \subseteq Issued /\ flagged \subseteq Issued /\ doomed \subseteq Issued
           /\ home \in [Uids -> Folders] /\ body \in [Uids -> Contents]
           /\ nextUid \in 1 .. LastUid + 1)'
    BY <1>a DEF TypeOK, PurgeEnds, Sound, Done, clock, mailbox, Issued
  <2>2. (/\ nextRow \in 1 .. MaxRow + 1 /\ row \in [RowIds -> Row] /\ files \subseteq Paths)'
    BY <1>a DEF TypeOK, PurgeEnds, Sound, Done, clock, journal
  <2>3. (/\ inflight \subseteq [op : {"expunge", "append"}, row : Used, uid : 0 .. LastUid]
           /\ pc \in {"idle", "purge", "refetch", "store", "expunge", "await", "rollback", "mark",
                      "restore", "append", "finalize", "clean", "clear"}
           /\ todo \subseteq Used)'
    BY <1>a DEF TypeOK, PurgeEnds, Sound, Done, clock, mailbox, journal, Used
  <2>4. (/\ job \in [row : 0 .. MaxRow, uid : 0 .. LastUid] /\ path \in Paths \cup {NoPath}
           /\ expunged \in [Uids -> Days \cup {-1}] /\ origin \in [Uids -> 0 .. MaxRow])'
    BY RetentionAssumption, <1>a
      DEF RetentionAssumption, TypeOK, PurgeEnds, Sound, Done, clock, mailbox, journal,
          history, budget, LastUid
  <2>5. (/\ faults \in 0 .. MaxFaults /\ external \in 0 .. MaxExternal)'
    BY <1>a DEF TypeOK, Sound, budget, PurgeEnds
  <2> QED BY <2>1, <2>2, <2>3, <2>4, <2>5 DEF TypeOK
<1>2. RowsNameTheirCopy'
  BY <1>a
    DEF RowsNameTheirCopy, Located, Issued, Used, PurgeEnds, Sound, Done, clock, mailbox,
        journal
<1>3. PathInv'
  BY <1>a DEF PathInv, Paid, Used, NoPath, PurgeEnds, Sound, Done, clock, journal
<1>4. ReturnInv'
  BY <1>a DEF ReturnInv, Waits, Located, Used, PurgeEnds, Sound, Done, clock, journal
<1>5. JobInv'
  BY <1>a DEF PurgeEnds, Sound, Done, clock, mailbox, JobInv
<1>6. FlightInv'
  BY <1>a
    DEF PurgeEnds, Sound, Done, clock, mailbox, journal, history, budget, FlightInv,
        Expunge, Deleting, Returning
<1>7. CleanInv'
  BY <1>a DEF PurgeEnds, Sound, Done, clock, mailbox, journal, CleanInv
<1>8. OwedInv'
  BY <1>a
    DEF OwedInv, Issued, Used, PurgeEnds, Sound, Done, clock, mailbox, journal, history
<1>9. OriginInv'
  BY <1>a
    DEF OriginInv, Returning, Issued, Used, PurgeEnds, Sound, Done, clock, mailbox,
        journal, history
<1>10. (~ DiskLoses => NeededCopiesKept)'
  BY <1>b DEF NeededCopiesKept, Used, PurgeEnds, Sound, Done, clock, journal
<1>11. ASSUME ~ LateReplies PROVE PromptInv'
  <2>0. PromptInv
    BY <1>b, <1>11
  <2>1. (inflight # {} => pc = "await")'
    BY <2>0 DEF PurgeEnds, PromptInv
  <2>2. (\A m \in inflight : m.row = job.row)'
    BY <2>0 DEF PurgeEnds, PromptInv
  <2>3. (\A m \in inflight : m.op = "expunge" =>
         row[m.row].path \in files /\ ~ HamVeto(row[m.row].content))'
    BY <2>0 DEF PurgeEnds, PromptInv
  <2>4. (pc = "append" \/ (\E m \in inflight : m.op = "append") =>
         \A w \in In("Review") : origin[w] # job.row)'
    BY <2>0, <1>a DEF PurgeEnds, Sound, Done, clock, mailbox, journal, PromptInv
  <2>5. (\A v, w \in In("Review") : origin[v] = origin[w] /\ origin[v] # 0 => v = w)'
    BY <2>0 DEF PurgeEnds, Sound, Done, clock, mailbox, journal, history, PromptInv, In
  <2> QED BY <2>1, <2>2, <2>3, <2>4, <2>5 DEF PromptInv
<1> QED BY <1>1, <1>2, <1>3, <1>4, <1>5, <1>6, <1>7, <1>8, <1>9, <1>10, <1>11 DEF IInv

LEMMA PurgeLooksAgainKeeps == ASSUME IInv, PurgeLooksAgain PROVE IInv'
<1>a. TypeOK /\ RowsNameTheirCopy /\ PathInv /\ ReturnInv
      /\ JobInv /\ FlightInv /\ CleanInv /\ OwedInv /\ OriginInv
  BY DEF IInv
<1>b. (~ DiskLoses => NeededCopiesKept) /\ (~ LateReplies => PromptInv)
  BY DEF IInv
<1>t. Typed
  BY <1>a, Types
<1>1. TypeOK'
  <2>1. (/\ now \in 0 .. MaxTime
           /\ live \subseteq Issued /\ flagged \subseteq Issued /\ doomed \subseteq Issued
           /\ home \in [Uids -> Folders] /\ body \in [Uids -> Contents]
           /\ nextUid \in 1 .. LastUid + 1)'
    BY <1>a DEF TypeOK, PurgeLooksAgain, Sound, clock, mailbox, Issued
  <2>2. (/\ nextRow \in 1 .. MaxRow + 1 /\ row \in [RowIds -> Row] /\ files \subseteq Paths)'
    BY <1>a DEF TypeOK, PurgeLooksAgain, Sound, clock, journal
  <2>3. (/\ inflight \subseteq [op : {"expunge", "append"}, row : Used, uid : 0 .. LastUid]
           /\ pc \in {"idle", "purge", "refetch", "store", "expunge", "await", "rollback", "mark",
                      "restore", "append", "finalize", "clean", "clear"}
           /\ todo \subseteq Used)'
    BY <1>a DEF TypeOK, PurgeLooksAgain, Sound, Intact, clock, mailbox, journal, Used
  <2>4. (/\ job \in [row : 0 .. MaxRow, uid : 0 .. LastUid] /\ path \in Paths \cup {NoPath}
           /\ expunged \in [Uids -> Days \cup {-1}] /\ origin \in [Uids -> 0 .. MaxRow])'
    BY <1>a DEF TypeOK, PurgeLooksAgain, Sound, clock, history
  <2>5. (/\ faults \in 0 .. MaxFaults /\ external \in 0 .. MaxExternal)'
    BY <1>a DEF TypeOK, Sound, budget, PurgeLooksAgain
  <2> QED BY <2>1, <2>2, <2>3, <2>4, <2>5 DEF TypeOK
<1>2. RowsNameTheirCopy'
  BY <1>a
    DEF RowsNameTheirCopy, Located, Issued, Used, PurgeLooksAgain, Sound, clock, mailbox,
        journal
<1>3. PathInv'
  BY <1>a DEF PathInv, Paid, Used, NoPath, PurgeLooksAgain, Sound, clock, journal
<1>4. ReturnInv'
  BY <1>a DEF ReturnInv, Waits, Located, Used, PurgeLooksAgain, Sound, clock, journal
<1>5. JobInv'
  BY <1>a
    DEF PurgeLooksAgain, Sound, Intact, clock, mailbox, journal, history, budget, JobInv,
        HamVeto, Used
<1>6. FlightInv'
  BY <1>a
    DEF PurgeLooksAgain, Sound, Intact, clock, mailbox, journal, history, budget,
        FlightInv, Expunge, Deleting, Returning
<1>7. CleanInv'
  BY <1>a DEF PurgeLooksAgain, CleanInv
<1>8. OwedInv'
  BY <1>a
    DEF OwedInv, Issued, Used, PurgeLooksAgain, Sound, clock, mailbox, journal, history
<1>9. OriginInv'
  BY <1>a
    DEF OriginInv, Returning, Issued, Used, PurgeLooksAgain, Sound, clock, mailbox,
        journal, history
<1>10. (~ DiskLoses => NeededCopiesKept)'
  BY <1>b DEF NeededCopiesKept, Used, PurgeLooksAgain, Sound, clock, journal
<1>11. ASSUME ~ LateReplies PROVE PromptInv'
  <2>0. PromptInv
    BY <1>b, <1>11
  <2>1. (inflight # {} => pc = "await")'
    BY <2>0 DEF PurgeLooksAgain, PromptInv
  <2>2. (\A m \in inflight : m.row = job.row)'
    BY <2>0 DEF PurgeLooksAgain, PromptInv
  <2>3. (\A m \in inflight : m.op = "expunge" =>
         row[m.row].path \in files /\ ~ HamVeto(row[m.row].content))'
    BY <2>0 DEF PurgeLooksAgain, PromptInv
  <2>4. (pc = "append" \/ (\E m \in inflight : m.op = "append") =>
         \A w \in In("Review") : origin[w] # job.row)'
    BY <2>0, <1>a DEF PurgeLooksAgain, PromptInv
  <2>5. (\A v, w \in In("Review") : origin[v] = origin[w] /\ origin[v] # 0 => v = w)'
    BY <2>0 DEF PurgeLooksAgain, Sound, clock, mailbox, journal, history, PromptInv, In
  <2> QED BY <2>1, <2>2, <2>3, <2>4, <2>5 DEF PromptInv
<1> QED BY <1>1, <1>2, <1>3, <1>4, <1>5, <1>6, <1>7, <1>8, <1>9, <1>10, <1>11 DEF IInv

LEMMA StoreDeletedKeeps == ASSUME IInv, StoreDeleted PROVE IInv'
<1>a. TypeOK /\ RowsNameTheirCopy /\ PathInv /\ ReturnInv
      /\ JobInv /\ FlightInv /\ CleanInv /\ OwedInv /\ OriginInv
  BY DEF IInv
<1>b. (~ DiskLoses => NeededCopiesKept) /\ (~ LateReplies => PromptInv)
  BY DEF IInv
<1>t. Typed
  BY <1>a, Types
<1>1. TypeOK'
  <2>1. (/\ now \in 0 .. MaxTime
           /\ live \subseteq Issued /\ flagged \subseteq Issued /\ doomed \subseteq Issued
           /\ home \in [Uids -> Folders] /\ body \in [Uids -> Contents]
           /\ nextUid \in 1 .. LastUid + 1)'
    BY <1>a DEF TypeOK, StoreDeleted, Sound, In, clock, journal, history, Issued
  <2>2. (/\ nextRow \in 1 .. MaxRow + 1 /\ row \in [RowIds -> Row] /\ files \subseteq Paths)'
    BY <1>a DEF TypeOK, StoreDeleted, Sound, journal
  <2>3. (/\ inflight \subseteq [op : {"expunge", "append"}, row : Used, uid : 0 .. LastUid]
           /\ pc \in {"idle", "purge", "refetch", "store", "expunge", "await", "rollback", "mark",
                      "restore", "append", "finalize", "clean", "clear"}
           /\ todo \subseteq Used)'
    BY <1>a DEF TypeOK, StoreDeleted, Sound, In, clock, journal, Used
  <2>4. (/\ job \in [row : 0 .. MaxRow, uid : 0 .. LastUid] /\ path \in Paths \cup {NoPath}
           /\ expunged \in [Uids -> Days \cup {-1}] /\ origin \in [Uids -> 0 .. MaxRow])'
    BY <1>a DEF TypeOK, StoreDeleted, Sound, history
  <2>5. (/\ faults \in 0 .. MaxFaults /\ external \in 0 .. MaxExternal)'
    BY <1>a DEF TypeOK, Sound, budget, StoreDeleted
  <2> QED BY <2>1, <2>2, <2>3, <2>4, <2>5 DEF TypeOK
<1>2. RowsNameTheirCopy'
  BY <1>a DEF RowsNameTheirCopy, Located, Issued, Used, StoreDeleted, Sound, journal
<1>3. PathInv'
  BY <1>a DEF PathInv, Paid, Used, NoPath, StoreDeleted, Sound, clock, journal
<1>4. ReturnInv'
  BY <1>a DEF ReturnInv, Waits, Located, Used, StoreDeleted, Sound, journal
<1>5. JobInv'
  BY <1>a
    DEF StoreDeleted, Sound, In, clock, journal, history, budget, JobInv, HamVeto, Used
<1>6. FlightInv'
  BY <1>a
    DEF StoreDeleted, Sound, In, clock, journal, history, budget, FlightInv, Expunge,
        Deleting, Returning
<1>7. CleanInv'
  BY <1>a DEF StoreDeleted, CleanInv
<1>8. OwedInv'
  BY <1>a DEF OwedInv, Issued, Used, StoreDeleted, Sound, clock, journal, history
<1>9. OriginInv'
  BY <1>a DEF OriginInv, Returning, Issued, Used, StoreDeleted, Sound, journal, history
<1>10. (~ DiskLoses => NeededCopiesKept)'
  BY <1>b DEF NeededCopiesKept, Used, StoreDeleted, Sound, clock, journal
<1>11. ASSUME ~ LateReplies PROVE PromptInv'
  <2>0. PromptInv
    BY <1>b, <1>11
  <2>1. (inflight # {} => pc = "await")'
    BY <2>0 DEF StoreDeleted, PromptInv
  <2>2. (\A m \in inflight : m.row = job.row)'
    BY <2>0 DEF StoreDeleted, PromptInv
  <2>3. (\A m \in inflight : m.op = "expunge" =>
         row[m.row].path \in files /\ ~ HamVeto(row[m.row].content))'
    BY <2>0 DEF StoreDeleted, PromptInv
  <2>4. (pc = "append" \/ (\E m \in inflight : m.op = "append") =>
         \A w \in In("Review") : origin[w] # job.row)'
    BY <2>0 DEF StoreDeleted, PromptInv
  <2>5. (\A v, w \in In("Review") : origin[v] = origin[w] /\ origin[v] # 0 => v = w)'
    BY <2>0 DEF StoreDeleted, Sound, clock, journal, history, PromptInv, In
  <2> QED BY <2>1, <2>2, <2>3, <2>4, <2>5 DEF PromptInv
<1> QED BY <1>1, <1>2, <1>3, <1>4, <1>5, <1>6, <1>7, <1>8, <1>9, <1>10, <1>11 DEF IInv

LEMMA SendExpungeKeeps == ASSUME IInv, SendExpunge PROVE IInv'
<1>a. TypeOK /\ RowsNameTheirCopy /\ PathInv /\ ReturnInv
      /\ JobInv /\ FlightInv /\ CleanInv /\ OwedInv /\ OriginInv
  BY DEF IInv
<1>b. (~ DiskLoses => NeededCopiesKept) /\ (~ LateReplies => PromptInv)
  BY DEF IInv
<1>t. Typed
  BY <1>a, Types
<1>f. /\ UNCHANGED <<now, live, home, body, flagged, doomed, nextUid, row, nextRow,
                   todo, job, path, expunged, origin, files>>
      /\ pc = "expunge" /\ pc' = "await"
      /\ inflight' = inflight \cup {Expunge(job.row)}
  BY DEF SendExpunge, Sound, clock, mailbox, journal, history
<1>1. TypeOK'
  <2>1. (/\ now \in 0 .. MaxTime
           /\ live \subseteq Issued /\ flagged \subseteq Issued /\ doomed \subseteq Issued
           /\ home \in [Uids -> Folders] /\ body \in [Uids -> Contents]
           /\ nextUid \in 1 .. LastUid + 1)'
    BY <1>a DEF TypeOK, SendExpunge, Sound, clock, mailbox, Issued
  <2>2. (/\ nextRow \in 1 .. MaxRow + 1 /\ row \in [RowIds -> Row] /\ files \subseteq Paths)'
    BY <1>a DEF TypeOK, SendExpunge, Sound, clock, journal
  <2>3. (/\ inflight \subseteq [op : {"expunge", "append"}, row : Used, uid : 0 .. LastUid]
           /\ pc \in {"idle", "purge", "refetch", "store", "expunge", "await", "rollback", "mark",
                      "restore", "append", "finalize", "clean", "clear"}
           /\ todo \subseteq Used)'
    <3>1. job.row \in Used /\ row[job.row] \in Row /\ 0 \in 0 .. LastUid
      BY <1>a, <1>f, <1>t DEF JobInv, Typed, TypeOK
    <3>2. Expunge(job.row) \in [op : {"expunge", "append"}, row : Used, uid : 0 .. LastUid]
      BY <3>1 DEF Expunge, Row
    <3> QED BY <1>a, <1>f, <3>2 DEF TypeOK, Used
  <2>4. (/\ job \in [row : 0 .. MaxRow, uid : 0 .. LastUid] /\ path \in Paths \cup {NoPath}
           /\ expunged \in [Uids -> Days \cup {-1}] /\ origin \in [Uids -> 0 .. MaxRow])'
    BY <1>a DEF TypeOK, SendExpunge, Sound, clock, history
  <2>5. (/\ faults \in 0 .. MaxFaults /\ external \in 0 .. MaxExternal)'
    BY <1>a DEF TypeOK, Sound, budget, SendExpunge
  <2> QED BY <2>1, <2>2, <2>3, <2>4, <2>5 DEF TypeOK
<1>2. RowsNameTheirCopy'
  BY <1>a, <1>f DEF RowsNameTheirCopy, Located, Issued, Used
<1>3. PathInv'
  BY <1>a, <1>f DEF PathInv, Paid, Used
<1>4. ReturnInv'
  BY <1>a, <1>f DEF ReturnInv, Waits, Located, Used
<1>5. JobInv'
  BY <1>a, <1>f DEF JobInv, HamVeto, Used, Expunge
<1>6. FlightInv'
  BY <1>a, <1>f DEF JobInv, FlightInv, Expunge, Deleting, Returning
<1>7. CleanInv'
  BY <1>f DEF CleanInv
<1>8. OwedInv'
  BY <1>a, <1>f DEF OwedInv, Issued, Used
<1>9. OriginInv'
  BY <1>a, <1>f DEF OriginInv, Returning, Issued, Used
<1>10. (~ DiskLoses => NeededCopiesKept)'
  BY <1>b, <1>f DEF NeededCopiesKept, Used
<1>11. ASSUME ~ LateReplies PROVE PromptInv'
  <2>0. PromptInv
    BY <1>b, <1>11
  <2>1. (inflight # {} => pc = "await")'
    BY <1>f
  <2>2. (\A m \in inflight : m.row = job.row)'
    BY <2>0, <1>f DEF PromptInv, Expunge
  <2>3. (\A m \in inflight : m.op = "expunge" =>
         row[m.row].path \in files /\ ~ HamVeto(row[m.row].content))'
    BY <2>0, <1>a, <1>f DEF PromptInv, HamVeto, Used, JobInv, Expunge
  <2>4. (pc = "append" \/ (\E m \in inflight : m.op = "append") =>
         \A w \in In("Review") : origin[w] # job.row)'
    BY <2>0, <1>a, <1>f DEF PromptInv, Expunge
  <2>5. (\A v, w \in In("Review") : origin[v] = origin[w] /\ origin[v] # 0 => v = w)'
    BY <2>0, <1>f DEF PromptInv, In
  <2> QED BY <2>1, <2>2, <2>3, <2>4, <2>5 DEF PromptInv
<1> QED BY <1>1, <1>2, <1>3, <1>4, <1>5, <1>6, <1>7, <1>8, <1>9, <1>10, <1>11 DEF IInv

LEMMA ServerExpungesKeeps == ASSUME NEW m \in inflight, IInv, ServerExpunges(m) PROVE IInv'
<1>a. TypeOK /\ RowsNameTheirCopy /\ PathInv /\ ReturnInv
      /\ JobInv /\ FlightInv /\ CleanInv /\ OwedInv /\ OriginInv
  BY DEF IInv
<1>b. (~ DiskLoses => NeededCopiesKept) /\ (~ LateReplies => PromptInv)
  BY DEF IInv
<1>t. Typed
  BY <1>a, Types
<1>f. /\ UNCHANGED <<now, home, body, nextUid, row, nextRow, todo, job, path, origin,
                   files>>
      /\ inflight' = inflight \ {m} /\ live' \subseteq live
      /\ \/ pc = "await" /\ m.row = job.row /\ pc' = "mark"
         \/ ~ Awaits(m) /\ pc' = pc
  BY DEF ServerExpunges, Sound, clock, journal, Awaits
<1>k. /\ m = Expunge(m.row) /\ m.row \in Used /\ m.uid = row[m.row].uid
      /\ m.uid \in Issued /\ body[m.uid] = row[m.row].content
      /\ row[m.row].status \in {"quarantined", "superseded"}
  <2>1. /\ m = Expunge(m.row) /\ m.row \in Used /\ m.uid # 0 /\ row[m.row].folder = "Quarantine"
        /\ row[m.row].status \in {"quarantined", "superseded"}
    <3>1. m.op = "expunge" /\ m.row \in Used
      BY <1>t DEF ServerExpunges, Typed
    <3>2. m # Append(m.row)
      BY <3>1 DEF Append
    <3> QED BY <1>a, <3>1, <3>2 DEF FlightInv, Deleting
  <2>2. m.uid = row[m.row].uid
    BY <2>1 DEF Expunge
  <2>3. Located(m.row)
    BY <2>1, <2>2 DEF Located
  <2> QED BY <1>a, <2>1, <2>2, <2>3 DEF RowsNameTheirCopy
<1>o. /\ DOMAIN expunged' = Uids
      /\ \A v \in Uids : v # m.uid => expunged'[v] = expunged[v]
      /\ expunged'[m.uid] \in {expunged[m.uid], row[m.row].until}
  <2>1. m.uid \in Uids
    BY <1>k, <1>t DEF Typed
  <2> QED BY <1>t, <2>1 DEF ServerExpunges, Typed
<1>1. TypeOK'
  <2>1. (/\ now \in 0 .. MaxTime
           /\ live \subseteq Issued /\ flagged \subseteq Issued /\ doomed \subseteq Issued
           /\ home \in [Uids -> Folders] /\ body \in [Uids -> Contents]
           /\ nextUid \in 1 .. LastUid + 1)'
    BY <1>a, <1>f DEF TypeOK, ServerExpunges, Awaits, Issued
  <2>2. (/\ nextRow \in 1 .. MaxRow + 1 /\ row \in [RowIds -> Row] /\ files \subseteq Paths)'
    BY <1>a DEF TypeOK, ServerExpunges, journal
  <2>3. (/\ inflight \subseteq [op : {"expunge", "append"}, row : Used, uid : 0 .. LastUid]
           /\ pc \in {"idle", "purge", "refetch", "store", "expunge", "await", "rollback", "mark",
                      "restore", "append", "finalize", "clean", "clear"}
           /\ todo \subseteq Used)'
    BY <1>a, <1>f DEF TypeOK, Used
  <2>4. (/\ job \in [row : 0 .. MaxRow, uid : 0 .. LastUid] /\ path \in Paths \cup {NoPath}
           /\ expunged \in [Uids -> Days \cup {-1}] /\ origin \in [Uids -> 0 .. MaxRow])'
    <3>1. row[m.row].until \in Days
      <4>1. row[m.row] \in Row
        BY <1>a, <1>t DEF TypeOK, Typed
      <4> QED BY <4>1 DEF Row
    <3>2. expunged' \in [Uids -> Days \cup {-1}]
      BY <1>a, <3>1 DEF ServerExpunges, TypeOK
    <3> QED BY <1>a, <1>f, <3>2 DEF TypeOK
  <2>5. (/\ faults \in 0 .. MaxFaults /\ external \in 0 .. MaxExternal)'
    BY <1>a DEF TypeOK, Sound, budget, ServerExpunges
  <2> QED BY <2>1, <2>2, <2>3, <2>4, <2>5 DEF TypeOK
<1>2. RowsNameTheirCopy'
  BY <1>a, <1>f DEF RowsNameTheirCopy, Located, Issued, Used
<1>3. PathInv'
  BY <1>a, <1>f DEF PathInv, Paid, Used
<1>4. ReturnInv'
  BY <1>a, <1>f DEF ReturnInv, Waits, Located, Used
<1>5. JobInv'
  <2>1. CASE ~ Awaits(m) /\ pc' = pc
    <3>1. \A n \in inflight : pc = "await" /\ n.row = job.row => n \in inflight'
      BY <1>f, <2>1 DEF Awaits
    <3>2. (Expunge(job.row) \in inflight /\ pc = "await" => Expunge(job.row) \in inflight')
          /\ (Append(job.row) \in inflight /\ pc = "await" => Append(job.row) \in inflight')
      BY <3>1 DEF Expunge, Append
    <3> QED BY <1>a, <1>f, <2>1, <3>2 DEF JobInv, HamVeto, Issued, Used, Expunge
  <2>2. CASE pc = "await" /\ m.row = job.row /\ pc' = "mark"
    BY <1>a, <1>f, <1>k, <2>2 DEF JobInv, Used
  <2> QED BY <1>f, <2>1, <2>2
<1>6. FlightInv'
  BY <1>a, <1>f DEF FlightInv, Expunge, Deleting, Returning
<1>7. CleanInv'
  BY <1>a, <1>f DEF CleanInv, Expired, Used
<1>8. OwedInv'
  BY <1>a, <1>t, <1>f, <1>k, <1>o DEF PathInv, OwedInv, Issued, Used, Typed
<1>9. OriginInv'
  BY <1>a, <1>f DEF OriginInv, Returning, Issued, Used
<1>10. (~ DiskLoses => NeededCopiesKept)'
  BY <1>b, <1>f DEF NeededCopiesKept, Used
<1>11. ASSUME ~ LateReplies PROVE PromptInv'
  <2>0. PromptInv
    BY <1>b, <1>11
  <2>1. inflight' = {} /\ pc = "await" /\ pc' # "append"
    BY <1>a, <1>f, <1>t, <2>0, OneInFlight DEF PromptInv
  <2>2. (\A v, w \in In("Review") : origin[v] = origin[w] /\ origin[v] # 0 => v = w)'
    BY <1>f, <2>0 DEF PromptInv, In
  <2> QED BY <2>1, <2>2 DEF PromptInv
<1> QED BY <1>1, <1>2, <1>3, <1>4, <1>5, <1>6, <1>7, <1>8, <1>9, <1>10, <1>11 DEF IInv

LEMMA ServerRefusesExpungeKeeps == ASSUME NEW m \in inflight, IInv, ServerRefusesExpunge(m) PROVE IInv'
<1>a. TypeOK /\ RowsNameTheirCopy /\ PathInv /\ ReturnInv
      /\ JobInv /\ FlightInv /\ CleanInv /\ OwedInv /\ OriginInv
  BY DEF IInv
<1>b. (~ DiskLoses => NeededCopiesKept) /\ (~ LateReplies => PromptInv)
  BY DEF IInv
<1>t. Typed
  BY <1>a, Types
<1>f. /\ UNCHANGED <<now, live, home, body, flagged, doomed, nextUid, row, nextRow,
                   todo, job, path, expunged, origin, files>>
      /\ pc = "await" /\ pc' = "rollback" /\ inflight' = inflight \ {m}
  BY DEF ServerRefusesExpunge, Fault, clock, mailbox, journal, history, Awaits
<1>1. TypeOK'
  <2>1. (/\ now \in 0 .. MaxTime
           /\ live \subseteq Issued /\ flagged \subseteq Issued /\ doomed \subseteq Issued
           /\ home \in [Uids -> Folders] /\ body \in [Uids -> Contents]
           /\ nextUid \in 1 .. LastUid + 1)'
    BY <1>a DEF TypeOK, ServerRefusesExpunge, Fault, clock, mailbox, Issued
  <2>2. (/\ nextRow \in 1 .. MaxRow + 1 /\ row \in [RowIds -> Row] /\ files \subseteq Paths)'
    BY <1>a DEF TypeOK, ServerRefusesExpunge, Fault, journal
  <2>3. (/\ inflight \subseteq [op : {"expunge", "append"}, row : Used, uid : 0 .. LastUid]
           /\ pc \in {"idle", "purge", "refetch", "store", "expunge", "await", "rollback", "mark",
                      "restore", "append", "finalize", "clean", "clear"}
           /\ todo \subseteq Used)'
    BY <1>a, <1>f DEF TypeOK, Used
  <2>4. (/\ job \in [row : 0 .. MaxRow, uid : 0 .. LastUid] /\ path \in Paths \cup {NoPath}
           /\ expunged \in [Uids -> Days \cup {-1}] /\ origin \in [Uids -> 0 .. MaxRow])'
    BY <1>a DEF TypeOK, ServerRefusesExpunge, Fault, history
  <2>5. (/\ faults \in 0 .. MaxFaults /\ external \in 0 .. MaxExternal)'
    BY RetentionAssumption, <1>a DEF TypeOK, Fault, ServerRefusesExpunge
  <2> QED BY <2>1, <2>2, <2>3, <2>4, <2>5 DEF TypeOK
<1>2. RowsNameTheirCopy'
  BY <1>a, <1>f DEF RowsNameTheirCopy, Located, Issued, Used
<1>3. PathInv'
  BY <1>a, <1>f DEF PathInv, Paid, Used
<1>4. ReturnInv'
  BY <1>a, <1>f DEF ReturnInv, Waits, Located, Used
<1>5. JobInv'
  BY <1>a, <1>f DEF JobInv, Used
<1>6. FlightInv'
  BY <1>a, <1>f DEF FlightInv, Expunge, Deleting, Returning
<1>7. CleanInv'
  BY <1>f DEF CleanInv
<1>8. OwedInv'
  BY <1>a, <1>f DEF OwedInv, Issued, Used
<1>9. OriginInv'
  BY <1>a, <1>f DEF OriginInv, Returning, Issued, Used
<1>10. (~ DiskLoses => NeededCopiesKept)'
  BY <1>b, <1>f DEF NeededCopiesKept, Used
<1>11. ASSUME ~ LateReplies PROVE PromptInv'
  <2>0. PromptInv
    BY <1>b, <1>11
  <2>1. inflight' = {} /\ pc = "await" /\ pc' # "append"
    BY <1>a, <1>f, <1>t, <2>0, OneInFlight
  <2>2. (\A v, w \in In("Review") : origin[v] = origin[w] /\ origin[v] # 0 => v = w)'
    BY <1>f, <2>0 DEF PromptInv, In
  <2> QED BY <2>1, <2>2 DEF PromptInv
<1> QED BY <1>1, <1>2, <1>3, <1>4, <1>5, <1>6, <1>7, <1>8, <1>9, <1>10, <1>11 DEF IInv

LEMMA RollBackKeeps == ASSUME IInv, RollBack PROVE IInv'
<1>a. TypeOK /\ RowsNameTheirCopy /\ PathInv /\ ReturnInv
      /\ JobInv /\ FlightInv /\ CleanInv /\ OwedInv /\ OriginInv
  BY DEF IInv
<1>b. (~ DiskLoses => NeededCopiesKept) /\ (~ LateReplies => PromptInv)
  BY DEF IInv
<1>t. Typed
  BY <1>a, Types
<1>1. TypeOK'
  <2>1. (/\ now \in 0 .. MaxTime
           /\ live \subseteq Issued /\ flagged \subseteq Issued /\ doomed \subseteq Issued
           /\ home \in [Uids -> Folders] /\ body \in [Uids -> Contents]
           /\ nextUid \in 1 .. LastUid + 1)'
    BY <1>a DEF TypeOK, RollBack, Sound, clock, journal, history, Issued
  <2>2. (/\ nextRow \in 1 .. MaxRow + 1 /\ row \in [RowIds -> Row] /\ files \subseteq Paths)'
    BY <1>a DEF TypeOK, RollBack, Sound, journal
  <2>3. (/\ inflight \subseteq [op : {"expunge", "append"}, row : Used, uid : 0 .. LastUid]
           /\ pc \in {"idle", "purge", "refetch", "store", "expunge", "await", "rollback", "mark",
                      "restore", "append", "finalize", "clean", "clear"}
           /\ todo \subseteq Used)'
    BY <1>a DEF TypeOK, RollBack, Sound, clock, journal, Used
  <2>4. (/\ job \in [row : 0 .. MaxRow, uid : 0 .. LastUid] /\ path \in Paths \cup {NoPath}
           /\ expunged \in [Uids -> Days \cup {-1}] /\ origin \in [Uids -> 0 .. MaxRow])'
    BY <1>a DEF TypeOK, RollBack, Sound, history
  <2>5. (/\ faults \in 0 .. MaxFaults /\ external \in 0 .. MaxExternal)'
    BY <1>a DEF TypeOK, Sound, budget, RollBack
  <2> QED BY <2>1, <2>2, <2>3, <2>4, <2>5 DEF TypeOK
<1>2. RowsNameTheirCopy'
  BY <1>a DEF RowsNameTheirCopy, Located, Issued, Used, RollBack, Sound, journal
<1>3. PathInv'
  BY <1>a DEF PathInv, Paid, Used, NoPath, RollBack, Sound, clock, journal
<1>4. ReturnInv'
  BY <1>a DEF ReturnInv, Waits, Located, Used, RollBack, Sound, journal
<1>5. JobInv'
  BY <1>a DEF RollBack, Sound, clock, journal, JobInv
<1>6. FlightInv'
  BY <1>a
    DEF RollBack, Sound, clock, journal, history, budget, FlightInv, Expunge, Deleting,
        Returning
<1>7. CleanInv'
  BY DEF RollBack, CleanInv
<1>8. OwedInv'
  BY <1>a DEF OwedInv, Issued, Used, RollBack, Sound, clock, journal, history
<1>9. OriginInv'
  BY <1>a DEF OriginInv, Returning, Issued, Used, RollBack, Sound, journal, history
<1>10. (~ DiskLoses => NeededCopiesKept)'
  BY <1>b DEF NeededCopiesKept, Used, RollBack, Sound, clock, journal
<1>11. ASSUME ~ LateReplies PROVE PromptInv'
  <2>0. PromptInv
    BY <1>b, <1>11
  <2>1. (inflight # {} => pc = "await")'
    BY <2>0 DEF RollBack, PromptInv
  <2>2. (\A m \in inflight : m.row = job.row)'
    BY <2>0 DEF RollBack, PromptInv
  <2>3. (\A m \in inflight : m.op = "expunge" =>
         row[m.row].path \in files /\ ~ HamVeto(row[m.row].content))'
    BY <2>0 DEF RollBack, PromptInv
  <2>4. (pc = "append" \/ (\E m \in inflight : m.op = "append") =>
         \A w \in In("Review") : origin[w] # job.row)'
    BY <2>0 DEF RollBack, PromptInv
  <2>5. (\A v, w \in In("Review") : origin[v] = origin[w] /\ origin[v] # 0 => v = w)'
    BY <2>0 DEF RollBack, Sound, clock, journal, history, PromptInv, In
  <2> QED BY <2>1, <2>2, <2>3, <2>4, <2>5 DEF PromptInv
<1> QED BY <1>1, <1>2, <1>3, <1>4, <1>5, <1>6, <1>7, <1>8, <1>9, <1>10, <1>11 DEF IInv

LEMMA MarkPurgedKeeps == ASSUME IInv, MarkPurged PROVE IInv'
<1>a. TypeOK /\ RowsNameTheirCopy /\ PathInv /\ ReturnInv
      /\ JobInv /\ FlightInv /\ CleanInv /\ OwedInv /\ OriginInv
  BY DEF IInv
<1>b. (~ DiskLoses => NeededCopiesKept) /\ (~ LateReplies => PromptInv)
  BY DEF IInv
<1>t. Typed
  BY <1>a, Types
<1>f. /\ UNCHANGED <<now, live, home, body, flagged, doomed, nextUid, nextRow, todo,
                   job, path, expunged, origin, inflight, files>>
      /\ pc = "mark" /\ pc' = "purge"
  BY DEF MarkPurged, Sound, clock, mailbox, history
<1>r. /\ job.row \in Used /\ DOMAIN row' = RowIds
      /\ \A q \in RowIds : q # job.row => row'[q] = row[q]
      /\ row'[job.row].status = "purged" /\ row'[job.row].folder = ""
      /\ row'[job.row].content = row[job.row].content
      /\ row'[job.row].uid = row[job.row].uid
      /\ row'[job.row].veto = row[job.row].veto
      /\ row'[job.row].since = row[job.row].since
      /\ row'[job.row].until = row[job.row].until
      /\ row'[job.row].path = row[job.row].path
  <2>1. job.row \in Used /\ job.row \in RowIds /\ row[job.row] \in Row
    BY <1>a, <1>t DEF MarkPurged, JobInv, Typed, TypeOK
  <2> QED BY <1>t, <2>1 DEF MarkPurged, Typed, Row
<1>x. PICK x \in Nat : x = job.row
  BY <1>t DEF Typed
<1>n. Used' = Used
  BY <1>f DEF Used
<1>s. \A q \in Used' : q # x => Same(q) /\ Settled(q)
  <2> SUFFICES ASSUME NEW q \in Used', q # x PROVE Same(q) /\ Settled(q)
    OBVIOUS
  <2>1. q \in Used /\ q \in RowIds
    BY <1>n, <1>t DEF Typed
  <2>2. row'[q] = row[q]
    BY <1>r, <1>x, <2>1
  <2> QED BY <2>1, <2>2 DEF Same, Settled
<1>w. Grows /\ Issued \subseteq Issued' /\ Used \subseteq Used'
  BY <1>f, <1>n DEF Grows, Issued
<1>1. TypeOK'
  <2>1. (/\ now \in 0 .. MaxTime
           /\ live \subseteq Issued /\ flagged \subseteq Issued /\ doomed \subseteq Issued
           /\ home \in [Uids -> Folders] /\ body \in [Uids -> Contents]
           /\ nextUid \in 1 .. LastUid + 1)'
    BY <1>a DEF TypeOK, MarkPurged, Sound, clock, mailbox, Issued
  <2>2. (/\ nextRow \in 1 .. MaxRow + 1 /\ row \in [RowIds -> Row] /\ files \subseteq Paths)'
    <3>1. job.row \in RowIds /\ row[job.row] \in Row /\ "purged" \in Statuses
      BY <1>a, <1>t, <1>r DEF TypeOK, Typed, Statuses
    <3>2. row' = [row EXCEPT ![job.row] = [row[job.row] EXCEPT !.status = "purged", !.folder = ""]]
      BY DEF MarkPurged
    <3>3. row' \in [RowIds -> Row]
      BY <1>a, <3>1, <3>2, RowTypes DEF TypeOK
    <3> QED BY <1>a, <1>f, <3>3 DEF TypeOK
  <2>3. (/\ inflight \subseteq [op : {"expunge", "append"}, row : Used, uid : 0 .. LastUid]
           /\ pc \in {"idle", "purge", "refetch", "store", "expunge", "await", "rollback", "mark",
                      "restore", "append", "finalize", "clean", "clear"}
           /\ todo \subseteq Used)'
    BY <1>a DEF TypeOK, MarkPurged, Used
  <2>4. (/\ job \in [row : 0 .. MaxRow, uid : 0 .. LastUid] /\ path \in Paths \cup {NoPath}
           /\ expunged \in [Uids -> Days \cup {-1}] /\ origin \in [Uids -> 0 .. MaxRow])'
    BY <1>a DEF TypeOK, MarkPurged, Sound, history
  <2>5. (/\ faults \in 0 .. MaxFaults /\ external \in 0 .. MaxExternal)'
    BY <1>a DEF TypeOK, Sound, budget, MarkPurged
  <2> QED BY <2>1, <2>2, <2>3, <2>4, <2>5 DEF TypeOK
<1>2. RowsNameTheirCopy'
  <2>1. x \in Used' /\ Located(x)' => Fits(x)'
    BY <1>a, <1>r, <1>x DEF Located
  <2> QED BY <1>a, <1>s, <1>w, <2>1, LocationsHold
<1>3. PathInv'
  <2>1. x \in Used' => Paid(x)'
    BY <1>a, <1>f, <1>r, <1>x DEF Paid, PathInv
  <2> QED BY <1>a, <1>f, <1>s, <2>1, PathsHold
<1>4. ReturnInv'
  <2>1. x \in Used' => Waits(x)'
    BY <1>a, <1>r, <1>x DEF Waits
  <2> QED BY <1>a, <1>s, <2>1, ReturnsHold
<1>5. JobInv'
  BY <1>a, <1>t, <1>f, <1>r DEF JobInv, Typed
<1>6. FlightInv'
  <2>1. x \in Used => ~ Flying(x) /\ (Returning(x) => Returning(x)')
    BY <1>a, <1>f, <1>r, <1>x DEF Flying, Returning, JobInv
  <2> QED BY <1>a, <1>f, <1>s, <1>t, <1>w, <2>1, FlightsHold
<1>7. CleanInv'
  BY <1>f DEF CleanInv
<1>8. OwedInv'
  <2>1. x \in RowIds /\ row[x].until \in Nat /\ row'[x].until = row[x].until
        /\ row'[x].content = row[x].content
    BY <1>r, <1>t, <1>x DEF Typed
  <2>2. \A q \in Used : row'[q].until \in Nat
    BY <1>n, <1>s, <1>t, <2>1 DEF Same, Typed
  <2>3. row[x].until <= row'[x].until
    BY <2>1
  <2> QED BY <1>a, <1>f, <1>s, <1>t, <1>w, <2>1, <2>2, OwedHolds
<1>9. OriginInv'
  <2>1. x \in Used => row'[x].content = row[x].content /\ (Returning(x) => Returning(x)')
    BY <1>a, <1>f, <1>r, <1>x DEF Returning, JobInv
  <2> QED BY <1>a, <1>f, <1>s, <1>t, <1>w, <2>1, OriginsHold
<1>10. (~ DiskLoses => NeededCopiesKept)'
  <2> SUFFICES ASSUME ~ DiskLoses PROVE NeededCopiesKept'
    OBVIOUS
  <2>1. x \in Used' => Backed(x)'
    BY <1>a, <1>b, <1>f, <1>r, <1>x DEF Backed, NeededCopiesKept
  <2> QED BY <1>b, <1>f, <1>s, <2>1, NeedsHold
<1>11. ASSUME ~ LateReplies PROVE PromptInv'
  <2>0. PromptInv
    BY <1>b, <1>11
  <2>1. (inflight # {} => pc = "await")'
    BY <2>0, <1>f DEF PromptInv
  <2>2. (\A m \in inflight : m.row = job.row)'
    BY <2>0, <1>f DEF PromptInv
  <2>3. (\A m \in inflight : m.op = "expunge" =>
         row[m.row].path \in files /\ ~ HamVeto(row[m.row].content))'
    BY <2>0, <1>f DEF PromptInv
  <2>4. (pc = "append" \/ (\E m \in inflight : m.op = "append") =>
         \A w \in In("Review") : origin[w] # job.row)'
    BY <2>0, <1>f DEF PromptInv
  <2>5. (\A v, w \in In("Review") : origin[v] = origin[w] /\ origin[v] # 0 => v = w)'
    BY <2>0, <1>f DEF PromptInv, In
  <2> QED BY <2>1, <2>2, <2>3, <2>4, <2>5 DEF PromptInv
<1> QED BY <1>1, <1>2, <1>3, <1>4, <1>5, <1>6, <1>7, <1>8, <1>9, <1>10, <1>11 DEF IInv

LEMMA OwnerRestoresKeeps == ASSUME NEW r \in RowIds, IInv, OwnerRestores(r) PROVE IInv'
<1>a. TypeOK /\ RowsNameTheirCopy /\ PathInv /\ ReturnInv
      /\ JobInv /\ FlightInv /\ CleanInv /\ OwedInv /\ OriginInv
  BY DEF IInv
<1>b. (~ DiskLoses => NeededCopiesKept) /\ (~ LateReplies => PromptInv)
  BY DEF IInv
<1>t. Typed
  BY <1>a, Types
<1>1. TypeOK'
  <2>1. (/\ now \in 0 .. MaxTime
           /\ live \subseteq Issued /\ flagged \subseteq Issued /\ doomed \subseteq Issued
           /\ home \in [Uids -> Folders] /\ body \in [Uids -> Contents]
           /\ nextUid \in 1 .. LastUid + 1)'
    BY <1>a DEF TypeOK, OwnerRestores, Outside, RestoreStart, clock, mailbox, Issued
  <2>2. (/\ nextRow \in 1 .. MaxRow + 1 /\ row \in [RowIds -> Row] /\ files \subseteq Paths)'
    BY <1>a DEF TypeOK, OwnerRestores, Outside, RestoreStart, journal
  <2>3. (/\ inflight \subseteq [op : {"expunge", "append"}, row : Used, uid : 0 .. LastUid]
           /\ pc \in {"idle", "purge", "refetch", "store", "expunge", "await", "rollback", "mark",
                      "restore", "append", "finalize", "clean", "clear"}
           /\ todo \subseteq Used)'
    BY <1>a
      DEF TypeOK, OwnerRestores, Outside, RestoreStart, Refused, PendingRestores, Idle,
          clock, journal, Used
  <2>4. (/\ job \in [row : 0 .. MaxRow, uid : 0 .. LastUid] /\ path \in Paths \cup {NoPath}
           /\ expunged \in [Uids -> Days \cup {-1}] /\ origin \in [Uids -> 0 .. MaxRow])'
    BY RetentionAssumption, <1>a
      DEF RetentionAssumption, TypeOK, OwnerRestores, Outside, RestoreStart, Refused,
          PendingRestores, Idle, clock, mailbox, journal, history, LastUid, RowIds
  <2>5. (/\ faults \in 0 .. MaxFaults /\ external \in 0 .. MaxExternal)'
    BY RetentionAssumption, <1>a DEF RetentionAssumption, TypeOK, Outside, OwnerRestores
  <2> QED BY <2>1, <2>2, <2>3, <2>4, <2>5 DEF TypeOK
<1>2. RowsNameTheirCopy'
  BY <1>a
    DEF RowsNameTheirCopy, Located, Issued, Used, OwnerRestores, Outside, RestoreStart,
        mailbox, journal
<1>3. PathInv'
  BY <1>a
    DEF PathInv, Paid, Used, NoPath, OwnerRestores, Outside, RestoreStart, clock, journal
<1>4. ReturnInv'
  BY <1>a DEF ReturnInv, Waits, Located, Used, OwnerRestores, Outside, RestoreStart, journal
<1>5. JobInv'
  BY <1>a
    DEF OwnerRestores, Outside, RestoreStart, Refused, PendingRestores, Idle, clock,
        mailbox, journal, history, JobInv, Used
<1>6. FlightInv'
  BY <1>a
    DEF OwnerRestores, Outside, RestoreStart, Refused, PendingRestores, Idle, clock,
        mailbox, journal, history, FlightInv, Expunge, Deleting, Returning
<1>7. CleanInv'
  BY <1>a DEF OwnerRestores, RestoreStart, Refused, CleanInv
<1>8. OwedInv'
  BY <1>a
    DEF OwedInv, Issued, Used, OwnerRestores, Outside, RestoreStart, clock, mailbox,
        journal, history
<1>9. OriginInv'
  BY <1>a
    DEF OriginInv, Returning, Issued, Used, OwnerRestores, Outside, RestoreStart, mailbox,
        journal, history
<1>10. (~ DiskLoses => NeededCopiesKept)'
  BY <1>b DEF NeededCopiesKept, Used, OwnerRestores, Outside, RestoreStart, clock, journal
<1>11. ASSUME ~ LateReplies PROVE PromptInv'
  <2>0. PromptInv
    BY <1>b, <1>11
  <2>1. (inflight # {} => pc = "await")'
    BY <2>0, <1>a DEF OwnerRestores, RestoreStart, Idle, PromptInv
  <2>2. (\A m \in inflight : m.row = job.row)'
    BY <2>0, <1>a DEF OwnerRestores, RestoreStart, Idle, PromptInv
  <2>3. (\A m \in inflight : m.op = "expunge" =>
         row[m.row].path \in files /\ ~ HamVeto(row[m.row].content))'
    BY <2>0
      DEF OwnerRestores, Outside, RestoreStart, clock, mailbox, journal, PromptInv,
          HamVeto, Used
  <2>4. (pc = "append" \/ (\E m \in inflight : m.op = "append") =>
         \A w \in In("Review") : origin[w] # job.row)'
    BY <2>0, <1>a DEF OwnerRestores, RestoreStart, Refused, Idle, PromptInv
  <2>5. (\A v, w \in In("Review") : origin[v] = origin[w] /\ origin[v] # 0 => v = w)'
    BY <2>0 DEF OwnerRestores, Outside, RestoreStart, clock, mailbox, history, PromptInv, In
  <2> QED BY <2>1, <2>2, <2>3, <2>4, <2>5 DEF PromptInv
<1> QED BY <1>1, <1>2, <1>3, <1>4, <1>5, <1>6, <1>7, <1>8, <1>9, <1>10, <1>11 DEF IInv

LEMMA RunRestoresKeeps == ASSUME NEW r \in RowIds, IInv, RunRestores(r) PROVE IInv'
<1>a. TypeOK /\ RowsNameTheirCopy /\ PathInv /\ ReturnInv
      /\ JobInv /\ FlightInv /\ CleanInv /\ OwedInv /\ OriginInv
  BY DEF IInv
<1>b. (~ DiskLoses => NeededCopiesKept) /\ (~ LateReplies => PromptInv)
  BY DEF IInv
<1>t. Typed
  BY <1>a, Types
<1>1. TypeOK'
  <2>1. (/\ now \in 0 .. MaxTime
           /\ live \subseteq Issued /\ flagged \subseteq Issued /\ doomed \subseteq Issued
           /\ home \in [Uids -> Folders] /\ body \in [Uids -> Contents]
           /\ nextUid \in 1 .. LastUid + 1)'
    BY <1>a DEF TypeOK, RunRestores, Sound, RestoreStart, budget, clock, mailbox, Issued
  <2>2. (/\ nextRow \in 1 .. MaxRow + 1 /\ row \in [RowIds -> Row] /\ files \subseteq Paths)'
    BY <1>a DEF TypeOK, RunRestores, Sound, RestoreStart, budget, journal
  <2>3. (/\ inflight \subseteq [op : {"expunge", "append"}, row : Used, uid : 0 .. LastUid]
           /\ pc \in {"idle", "purge", "refetch", "store", "expunge", "await", "rollback", "mark",
                      "restore", "append", "finalize", "clean", "clear"}
           /\ todo \subseteq Used)'
    BY <1>a
      DEF TypeOK, RunRestores, Sound, RestoreStart, PendingRestores, budget, Idle, clock,
          journal, Used
  <2>4. (/\ job \in [row : 0 .. MaxRow, uid : 0 .. LastUid] /\ path \in Paths \cup {NoPath}
           /\ expunged \in [Uids -> Days \cup {-1}] /\ origin \in [Uids -> 0 .. MaxRow])'
    BY RetentionAssumption, <1>a
      DEF RetentionAssumption, TypeOK, RunRestores, Sound, RestoreStart, PendingRestores,
          budget, Idle, clock, mailbox, journal, history, LastUid, RowIds
  <2>5. (/\ faults \in 0 .. MaxFaults /\ external \in 0 .. MaxExternal)'
    BY <1>a DEF TypeOK, Sound, budget, RunRestores
  <2> QED BY <2>1, <2>2, <2>3, <2>4, <2>5 DEF TypeOK
<1>2. RowsNameTheirCopy'
  BY <1>a
    DEF RowsNameTheirCopy, Located, Issued, Used, RunRestores, Sound, RestoreStart,
        budget, mailbox, journal
<1>3. PathInv'
  BY <1>a
    DEF PathInv, Paid, Used, NoPath, RunRestores, Sound, RestoreStart, budget, clock,
        journal
<1>4. ReturnInv'
  BY <1>a
    DEF ReturnInv, Waits, Located, Used, RunRestores, Sound, RestoreStart, budget, journal
<1>5. JobInv'
  BY <1>a
    DEF RunRestores, Sound, RestoreStart, PendingRestores, budget, Idle, clock, mailbox,
        journal, history, JobInv, Used
<1>6. FlightInv'
  BY <1>a
    DEF RunRestores, Sound, RestoreStart, PendingRestores, budget, Idle, clock, mailbox,
        journal, history, FlightInv, Expunge, Deleting, Returning
<1>7. CleanInv'
  BY <1>a DEF RunRestores, RestoreStart, CleanInv
<1>8. OwedInv'
  BY <1>a
    DEF OwedInv, Issued, Used, RunRestores, Sound, RestoreStart, budget, clock, mailbox,
        journal, history
<1>9. OriginInv'
  BY <1>a
    DEF OriginInv, Returning, Issued, Used, RunRestores, Sound, RestoreStart, budget,
        mailbox, journal, history
<1>10. (~ DiskLoses => NeededCopiesKept)'
  BY <1>b
    DEF NeededCopiesKept, Used, RunRestores, Sound, RestoreStart, budget, clock, journal
<1>11. ASSUME ~ LateReplies PROVE PromptInv'
  <2>0. PromptInv
    BY <1>b, <1>11
  <2>1. (inflight # {} => pc = "await")'
    BY <2>0, <1>a DEF RunRestores, RestoreStart, Idle, PromptInv
  <2>2. (\A m \in inflight : m.row = job.row)'
    BY <2>0, <1>a DEF RunRestores, RestoreStart, Idle, PromptInv
  <2>3. (\A m \in inflight : m.op = "expunge" =>
         row[m.row].path \in files /\ ~ HamVeto(row[m.row].content))'
    BY <2>0
      DEF RunRestores, Sound, RestoreStart, budget, clock, mailbox, journal, PromptInv,
          HamVeto, Used
  <2>4. (pc = "append" \/ (\E m \in inflight : m.op = "append") =>
         \A w \in In("Review") : origin[w] # job.row)'
    BY <2>0, <1>a DEF RunRestores, RestoreStart, Idle, PromptInv
  <2>5. (\A v, w \in In("Review") : origin[v] = origin[w] /\ origin[v] # 0 => v = w)'
    BY <2>0
      DEF RunRestores, Sound, RestoreStart, budget, clock, mailbox, history, PromptInv, In
  <2> QED BY <2>1, <2>2, <2>3, <2>4, <2>5 DEF PromptInv
<1> QED BY <1>1, <1>2, <1>3, <1>4, <1>5, <1>6, <1>7, <1>8, <1>9, <1>10, <1>11 DEF IInv

LEMMA RestoreRefusedKeeps == ASSUME NEW r \in RowIds, IInv, RestoreRefused(r) PROVE IInv'
<1>a. TypeOK /\ RowsNameTheirCopy /\ PathInv /\ ReturnInv
      /\ JobInv /\ FlightInv /\ CleanInv /\ OwedInv /\ OriginInv
  BY DEF IInv
<1>b. (~ DiskLoses => NeededCopiesKept) /\ (~ LateReplies => PromptInv)
  BY DEF IInv
<1>t. Typed
  BY <1>a, Types
<1>1. TypeOK'
  <2>1. (/\ now \in 0 .. MaxTime
           /\ live \subseteq Issued /\ flagged \subseteq Issued /\ doomed \subseteq Issued
           /\ home \in [Uids -> Folders] /\ body \in [Uids -> Contents]
           /\ nextUid \in 1 .. LastUid + 1)'
    BY <1>a DEF TypeOK, RestoreRefused, Sound, Done, clock, mailbox, Issued
  <2>2. (/\ nextRow \in 1 .. MaxRow + 1 /\ row \in [RowIds -> Row] /\ files \subseteq Paths)'
    BY <1>a DEF TypeOK, RestoreRefused, Sound, Done, clock, journal
  <2>3. (/\ inflight \subseteq [op : {"expunge", "append"}, row : Used, uid : 0 .. LastUid]
           /\ pc \in {"idle", "purge", "refetch", "store", "expunge", "await", "rollback", "mark",
                      "restore", "append", "finalize", "clean", "clear"}
           /\ todo \subseteq Used)'
    BY <1>a DEF TypeOK, RestoreRefused, Sound, Done, Refused, clock, mailbox, journal, Used
  <2>4. (/\ job \in [row : 0 .. MaxRow, uid : 0 .. LastUid] /\ path \in Paths \cup {NoPath}
           /\ expunged \in [Uids -> Days \cup {-1}] /\ origin \in [Uids -> 0 .. MaxRow])'
    BY RetentionAssumption, <1>a
      DEF RetentionAssumption, TypeOK, RestoreRefused, Sound, Done, Refused, clock,
          mailbox, journal, history, budget, LastUid
  <2>5. (/\ faults \in 0 .. MaxFaults /\ external \in 0 .. MaxExternal)'
    BY <1>a DEF TypeOK, Sound, budget, RestoreRefused
  <2> QED BY <2>1, <2>2, <2>3, <2>4, <2>5 DEF TypeOK
<1>2. RowsNameTheirCopy'
  BY <1>a
    DEF RowsNameTheirCopy, Located, Issued, Used, RestoreRefused, Sound, Done, clock,
        mailbox, journal
<1>3. PathInv'
  BY <1>a DEF PathInv, Paid, Used, NoPath, RestoreRefused, Sound, Done, clock, journal
<1>4. ReturnInv'
  BY <1>a DEF ReturnInv, Waits, Located, Used, RestoreRefused, Sound, Done, clock, journal
<1>5. JobInv'
  BY <1>a DEF RestoreRefused, Sound, Done, Refused, clock, mailbox, JobInv
<1>6. FlightInv'
  BY <1>a
    DEF RestoreRefused, Sound, Done, Refused, clock, mailbox, journal, history, budget,
        FlightInv, Expunge, Deleting, Returning
<1>7. CleanInv'
  BY <1>a DEF RestoreRefused, Sound, Done, Refused, clock, mailbox, journal, CleanInv
<1>8. OwedInv'
  BY <1>a
    DEF OwedInv, Issued, Used, RestoreRefused, Sound, Done, clock, mailbox, journal,
        history
<1>9. OriginInv'
  BY <1>a
    DEF OriginInv, Returning, Issued, Used, RestoreRefused, Sound, Done, clock, mailbox,
        journal, history
<1>10. (~ DiskLoses => NeededCopiesKept)'
  BY <1>b DEF NeededCopiesKept, Used, RestoreRefused, Sound, Done, clock, journal
<1>11. ASSUME ~ LateReplies PROVE PromptInv'
  <2>0. PromptInv
    BY <1>b, <1>11
  <2>1. (inflight # {} => pc = "await")'
    BY <2>0 DEF RestoreRefused, PromptInv
  <2>2. (\A m \in inflight : m.row = job.row)'
    BY <2>0 DEF RestoreRefused, PromptInv
  <2>3. (\A m \in inflight : m.op = "expunge" =>
         row[m.row].path \in files /\ ~ HamVeto(row[m.row].content))'
    BY <2>0 DEF RestoreRefused, PromptInv
  <2>4. (pc = "append" \/ (\E m \in inflight : m.op = "append") =>
         \A w \in In("Review") : origin[w] # job.row)'
    BY <2>0, <1>a
      DEF RestoreRefused, Sound, Done, Refused, clock, mailbox, journal, PromptInv
  <2>5. (\A v, w \in In("Review") : origin[v] = origin[w] /\ origin[v] # 0 => v = w)'
    BY <2>0 DEF RestoreRefused, Sound, Done, clock, mailbox, journal, history, PromptInv, In
  <2> QED BY <2>1, <2>2, <2>3, <2>4, <2>5 DEF PromptInv
<1> QED BY <1>1, <1>2, <1>3, <1>4, <1>5, <1>6, <1>7, <1>8, <1>9, <1>10, <1>11 DEF IInv

LEMMA RestoreReconciledKeeps == ASSUME NEW u \in Uids, IInv, RestoreReconciled(u) PROVE IInv'
<1>a. TypeOK /\ RowsNameTheirCopy /\ PathInv /\ ReturnInv
      /\ JobInv /\ FlightInv /\ CleanInv /\ OwedInv /\ OriginInv
  BY DEF IInv
<1>b. (~ DiskLoses => NeededCopiesKept) /\ (~ LateReplies => PromptInv)
  BY DEF IInv
<1>t. Typed
  BY <1>a, Types
<1>f. /\ UNCHANGED <<now, live, home, body, flagged, doomed, nextUid, nextRow, expunged,
                   origin, inflight, files>>
      /\ pc = "restore" /\ pc' = "idle" /\ todo' = {} /\ job' = [row |-> 0, uid |-> 0]
  BY DEF RestoreReconciled, Sound, Done, clock, mailbox, history
<1>r. /\ job.row \in Used /\ DOMAIN row' = RowIds
      /\ row[job.row].status = "pending_restore"
      /\ u \in Issued /\ home[u] = "Review" /\ body[u] = row[job.row].content
      /\ \A q \in RowIds : q # job.row => row'[q] = row[q]
      /\ \/ row'[job.row] = row[job.row]
         \/ /\ row'[job.row].status = "restored" /\ row'[job.row].folder = "Review"
            /\ row'[job.row].uid = u /\ row'[job.row].content = row[job.row].content
            /\ row'[job.row].until = row[job.row].until /\ row'[job.row].path = row[job.row].path
            /\ row'[job.row].veto = row[job.row].veto
  <2>1. job.row \in Used /\ job.row \in RowIds /\ row[job.row] \in Row
    BY <1>a, <1>t DEF RestoreReconciled, JobInv, Typed, TypeOK
  <2>2. /\ row[job.row].status = "pending_restore"
        /\ u \in Issued /\ home[u] = "Review" /\ body[u] = row[job.row].content
    <3>1. u \in Returned(job.row)
      BY DEF RestoreReconciled
    <3> QED BY <1>a, <3>1 DEF Returned, Matches, In, TypeOK
  <2>3. CASE row' = row
    BY <1>t, <2>1, <2>2, <2>3 DEF Typed
  <2>4. CASE row' = [row EXCEPT ![job.row] = [@ EXCEPT !.folder = "Review", !.uid = u, !.status = "restored"]]
    BY <1>t, <2>1, <2>2, <2>4 DEF Typed
  <2> QED BY <2>3, <2>4 DEF RestoreReconciled
<1>x. PICK x \in Nat : x = job.row
  BY <1>t DEF Typed
<1>n. Used' = Used
  BY <1>f DEF Used
<1>s. \A q \in Used' : q # x => Same(q) /\ Settled(q)
  <2> SUFFICES ASSUME NEW q \in Used', q # x PROVE Same(q) /\ Settled(q)
    OBVIOUS
  <2>1. q \in Used /\ q \in RowIds
    BY <1>n, <1>t DEF Typed
  <2>2. row'[q] = row[q]
    BY <1>r, <1>x, <2>1
  <2> QED BY <2>1, <2>2 DEF Same, Settled
<1>w. Grows /\ Issued \subseteq Issued' /\ Used \subseteq Used'
  BY <1>f, <1>n DEF Grows, Issued
<1>1. TypeOK'
  <2>1. (/\ now \in 0 .. MaxTime
           /\ live \subseteq Issued /\ flagged \subseteq Issued /\ doomed \subseteq Issued
           /\ home \in [Uids -> Folders] /\ body \in [Uids -> Contents]
           /\ nextUid \in 1 .. LastUid + 1)'
    BY <1>a DEF TypeOK, RestoreReconciled, Sound, Done, clock, mailbox, Issued
  <2>2. (/\ nextRow \in 1 .. MaxRow + 1 /\ row \in [RowIds -> Row] /\ files \subseteq Paths)'
    <3>1. job.row \in RowIds /\ row[job.row] \in Row /\ "restored" \in Statuses
          /\ "Review" \in Folders /\ u \in 0 .. LastUid
      BY <1>a, <1>t, <1>r DEF TypeOK, Typed, Statuses, Uids
    <3>2. \/ row' = [row EXCEPT ![job.row] = [row[job.row] EXCEPT !.folder = "Review", !.uid = u,
                                                              !.status = "restored"]]
          \/ row' = row
      BY DEF RestoreReconciled
    <3>3. row' \in [RowIds -> Row]
      <4>1. [row[job.row] EXCEPT !.folder = "Review", !.uid = u, !.status = "restored"] \in Row
        BY <3>1, RowTypes
      <4> QED BY <1>a, <3>2, <4>1 DEF TypeOK
    <3> QED BY <1>a, <1>f, <3>3 DEF TypeOK
  <2>3. (/\ inflight \subseteq [op : {"expunge", "append"}, row : Used, uid : 0 .. LastUid]
           /\ pc \in {"idle", "purge", "refetch", "store", "expunge", "await", "rollback", "mark",
                      "restore", "append", "finalize", "clean", "clear"}
           /\ todo \subseteq Used)'
    BY <1>a, <1>f DEF TypeOK, RestoreReconciled, Used
  <2>4. (/\ job \in [row : 0 .. MaxRow, uid : 0 .. LastUid] /\ path \in Paths \cup {NoPath}
           /\ expunged \in [Uids -> Days \cup {-1}] /\ origin \in [Uids -> 0 .. MaxRow])'
    <3>1. job' = [row |-> 0, uid |-> 0] /\ path' = NoPath
      BY DEF RestoreReconciled, Done
    <3> QED BY <1>a, <1>f, <3>1, JobTypes DEF TypeOK
  <2>5. (/\ faults \in 0 .. MaxFaults /\ external \in 0 .. MaxExternal)'
    BY <1>a DEF TypeOK, Sound, budget, RestoreReconciled
  <2> QED BY <2>1, <2>2, <2>3, <2>4, <2>5 DEF TypeOK
<1>2. RowsNameTheirCopy'
  <2>1. x \in Used' /\ Located(x)' => Fits(x)'
    BY <1>a, <1>f, <1>r, <1>x, <1>n, <1>s, <1>w DEF Fits, Located, RowsNameTheirCopy
  <2> QED BY <1>a, <1>s, <1>w, <2>1, LocationsHold
<1>3. PathInv'
  <2>1. x \in Used' => Paid(x)'
    BY <1>a, <1>f, <1>r, <1>x DEF Paid, PathInv
  <2> QED BY <1>a, <1>f, <1>s, <2>1, PathsHold
<1>4. ReturnInv'
  <2>1. x \in Used' => Waits(x)'
    BY <1>a, <1>r, <1>x DEF Waits, Located, ReturnInv
  <2> QED BY <1>a, <1>s, <2>1, ReturnsHold
<1>5. JobInv'
  BY <1>f DEF JobInv
<1>6. FlightInv'
  <2>1. x \in Used => ~ Flying(x) /\ (Returning(x) => Returning(x)')
    BY <1>a, <1>r, <1>x DEF Flying, Deleting, Returning
  <2> QED BY <1>a, <1>f, <1>s, <1>t, <1>w, <2>1, FlightsHold
<1>7. CleanInv'
  BY <1>f DEF CleanInv
<1>8. OwedInv'
  <2>1. x \in Used => row'[x].content = row[x].content /\ row[x].until <= row'[x].until
    BY <1>a, <1>t, <1>r DEF Typed
  <2>2. \A q \in Used : row'[q].until \in Nat
    BY <1>r, <1>t DEF Typed
  <2> QED BY <1>a, <1>f, <1>s, <1>t, <1>w, <2>1, <2>2, OwedHolds
<1>9. OriginInv'
  <2>1. x \in Used => row'[x].content = row[x].content /\ (Returning(x) => Returning(x)')
    BY <1>r, <1>x DEF Returning
  <2> QED BY <1>a, <1>f, <1>s, <1>t, <1>w, <2>1, OriginsHold
<1>10. (~ DiskLoses => NeededCopiesKept)'
  <2> SUFFICES ASSUME ~ DiskLoses PROVE NeededCopiesKept'
    OBVIOUS
  <2>1. x \in Used' => Backed(x)'
    BY <1>a, <1>b, <1>f, <1>r, <1>x DEF Backed, NeededCopiesKept
  <2> QED BY <1>b, <1>f, <1>s, <2>1, NeedsHold
<1>11. ASSUME ~ LateReplies PROVE PromptInv'
  <2>0. PromptInv
    BY <1>b, <1>11
  <2>1. (inflight # {} => pc = "await")'
    BY <2>0, <1>f DEF PromptInv
  <2>2. (\A m \in inflight : m.row = job.row)'
    BY <2>0, <1>f DEF PromptInv
  <2>3. (\A m \in inflight : m.op = "expunge" =>
         row[m.row].path \in files /\ ~ HamVeto(row[m.row].content))'
    BY <2>0, <1>f DEF PromptInv
  <2>4. (pc = "append" \/ (\E m \in inflight : m.op = "append") =>
         \A w \in In("Review") : origin[w] # job.row)'
    BY <2>0, <1>f DEF PromptInv
  <2>5. (\A v, w \in In("Review") : origin[v] = origin[w] /\ origin[v] # 0 => v = w)'
    BY <2>0, <1>f DEF PromptInv, In
  <2> QED BY <2>1, <2>2, <2>3, <2>4, <2>5 DEF PromptInv
<1> QED BY <1>1, <1>2, <1>3, <1>4, <1>5, <1>6, <1>7, <1>8, <1>9, <1>10, <1>11 DEF IInv

LEMMA MarkRestorePendingKeeps == ASSUME IInv, MarkRestorePending PROVE IInv'
<1>a. TypeOK /\ RowsNameTheirCopy /\ PathInv /\ ReturnInv
      /\ JobInv /\ FlightInv /\ CleanInv /\ OwedInv /\ OriginInv
  BY DEF IInv
<1>b. (~ DiskLoses => NeededCopiesKept) /\ (~ LateReplies => PromptInv)
  BY DEF IInv
<1>t. Typed
  BY <1>a, Types
<1>f. /\ UNCHANGED <<now, live, home, body, flagged, doomed, nextUid, nextRow, todo,
                   job, path, expunged, origin, inflight, files>>
      /\ pc = "restore" /\ pc' = "append"
  BY DEF MarkRestorePending, Sound, clock, mailbox, history
<1>r. /\ job.row \in Used /\ DOMAIN row' = RowIds
      /\ \A q \in RowIds : q # job.row => row'[q] = row[q]
      /\ row'[job.row].status = "pending_restore"
      /\ row'[job.row].content = row[job.row].content
      /\ row'[job.row].folder = row[job.row].folder
      /\ row'[job.row].uid = row[job.row].uid
      /\ row'[job.row].veto = row[job.row].veto
      /\ row'[job.row].since = row[job.row].since
      /\ row'[job.row].until = row[job.row].until
      /\ row'[job.row].path = row[job.row].path
  <2>1. job.row \in Used /\ job.row \in RowIds /\ row[job.row] \in Row
    BY <1>a, <1>t DEF MarkRestorePending, JobInv, Typed, TypeOK
  <2> QED BY <1>t, <2>1 DEF MarkRestorePending, Typed
<1>v. /\ inflight = {} \/ LateReplies
      /\ row[job.row].path \in files
      /\ \/ row[job.row].status = "pending_restore" /\ Matches("Review", row[job.row].content) = {}
         \/ ~ Located(job.row) /\ row[job.row].status \notin {"pending_restore", "restored"}
  BY <1>b DEF MarkRestorePending, Refused, Returned, PromptInv
<1>x. PICK x \in Nat : x = job.row
  BY <1>t DEF Typed
<1>n. Used' = Used
  BY <1>f DEF Used
<1>s. \A q \in Used' : q # x => Same(q) /\ Settled(q)
  <2> SUFFICES ASSUME NEW q \in Used', q # x PROVE Same(q) /\ Settled(q)
    OBVIOUS
  <2>1. q \in Used /\ q \in RowIds
    BY <1>n, <1>t DEF Typed
  <2>2. row'[q] = row[q]
    BY <1>r, <1>x, <2>1
  <2> QED BY <2>1, <2>2 DEF Same, Settled
<1>w. Grows /\ Issued \subseteq Issued' /\ Used \subseteq Used'
  BY <1>f, <1>n DEF Grows, Issued
<1>1. TypeOK'
  <2>1. (/\ now \in 0 .. MaxTime
           /\ live \subseteq Issued /\ flagged \subseteq Issued /\ doomed \subseteq Issued
           /\ home \in [Uids -> Folders] /\ body \in [Uids -> Contents]
           /\ nextUid \in 1 .. LastUid + 1)'
    BY <1>a DEF TypeOK, MarkRestorePending, Sound, clock, mailbox, Issued
  <2>2. (/\ nextRow \in 1 .. MaxRow + 1 /\ row \in [RowIds -> Row] /\ files \subseteq Paths)'
    <3>1. job.row \in RowIds /\ row[job.row] \in Row /\ "pending_restore" \in Statuses
      BY <1>a, <1>t, <1>r DEF TypeOK, Typed, Statuses
    <3>2. row' = [row EXCEPT ![job.row] = [row[job.row] EXCEPT !.status = "pending_restore"]]
      BY DEF MarkRestorePending
    <3>3. row' \in [RowIds -> Row]
      BY <1>a, <3>1, <3>2, RowTypes DEF TypeOK
    <3> QED BY <1>a, <1>f, <3>3 DEF TypeOK
  <2>3. (/\ inflight \subseteq [op : {"expunge", "append"}, row : Used, uid : 0 .. LastUid]
           /\ pc \in {"idle", "purge", "refetch", "store", "expunge", "await", "rollback", "mark",
                      "restore", "append", "finalize", "clean", "clear"}
           /\ todo \subseteq Used)'
    BY <1>a DEF TypeOK, MarkRestorePending, Used
  <2>4. (/\ job \in [row : 0 .. MaxRow, uid : 0 .. LastUid] /\ path \in Paths \cup {NoPath}
           /\ expunged \in [Uids -> Days \cup {-1}] /\ origin \in [Uids -> 0 .. MaxRow])'
    BY <1>a DEF TypeOK, MarkRestorePending, Sound, history
  <2>5. (/\ faults \in 0 .. MaxFaults /\ external \in 0 .. MaxExternal)'
    BY <1>a DEF TypeOK, Sound, budget, MarkRestorePending
  <2> QED BY <2>1, <2>2, <2>3, <2>4, <2>5 DEF TypeOK
<1>2. RowsNameTheirCopy'
  <2>1. x \in Used' /\ Located(x)' => Fits(x)'
    BY <1>a, <1>f, <1>r, <1>v, <1>x, <1>n, <1>s, <1>w DEF Fits, Located, RowsNameTheirCopy
  <2> QED BY <1>a, <1>s, <1>w, <2>1, LocationsHold
<1>3. PathInv'
  <2>1. x \in Used' => Paid(x)'
    BY <1>a, <1>f, <1>r, <1>x DEF Paid, PathInv
  <2> QED BY <1>a, <1>f, <1>s, <2>1, PathsHold
<1>4. ReturnInv'
  <2>1. x \in Used' => Waits(x)'
    BY <1>a, <1>r, <1>v, <1>x DEF Waits, Located, ReturnInv
  <2> QED BY <1>a, <1>s, <2>1, ReturnsHold
<1>5. JobInv'
  BY <1>a, <1>f, <1>r, <1>x DEF JobInv, Used
<1>6. FlightInv'
  <2>1. x \in Used => ~ Flying(x) /\ (Returning(x) => Returning(x)')
    BY <1>a, <1>r, <1>v, <1>x DEF Flying, Deleting, Returning, Located
  <2> QED BY <1>a, <1>f, <1>s, <1>t, <1>w, <2>1, FlightsHold
<1>7. CleanInv'
  BY <1>f DEF CleanInv
<1>8. OwedInv'
  <2>1. x \in Used => row'[x].content = row[x].content /\ row[x].until <= row'[x].until
    BY <1>a, <1>t, <1>r DEF Typed
  <2>2. \A q \in Used : row'[q].until \in Nat
    BY <1>r, <1>t DEF Typed
  <2> QED BY <1>a, <1>f, <1>s, <1>t, <1>w, <2>1, <2>2, OwedHolds
<1>9. OriginInv'
  <2>1. x \in Used => row'[x].content = row[x].content /\ (Returning(x) => Returning(x)')
    BY <1>r, <1>x DEF Returning
  <2> QED BY <1>a, <1>f, <1>s, <1>t, <1>w, <2>1, OriginsHold
<1>10. (~ DiskLoses => NeededCopiesKept)'
  <2> SUFFICES ASSUME ~ DiskLoses PROVE NeededCopiesKept'
    OBVIOUS
  <2>1. x \in Used' => Backed(x)'
    BY <1>a, <1>f, <1>r, <1>v, <1>x DEF Backed
  <2> QED BY <1>b, <1>f, <1>s, <2>1, NeedsHold
<1>11. ASSUME ~ LateReplies PROVE PromptInv'
  <2>0. PromptInv
    BY <1>b, <1>11
  <2>1. inflight' = {} /\ pc' = "append" /\ job' = job
    BY <1>11, <1>f, <1>v
  <2>2. \A w \in In("Review") : origin[w] # job.row
    <3> SUFFICES ASSUME NEW w \in In("Review"), origin[w] = job.row PROVE FALSE
      OBVIOUS
    <3>1. w \in Uids /\ origin[w] # 0
      BY <1>r, <1>t DEF In, Typed
    <3>2. Returning(job.row) /\ body[w] = row[job.row].content
      BY <1>a, <3>1 DEF OriginInv
    <3>3. w \in Matches("Review", row[job.row].content)
      BY <3>2 DEF Matches
    <3> QED BY <1>v, <3>2, <3>3 DEF Returning
  <2>3. (\A v, w \in In("Review") : origin[v] = origin[w] /\ origin[v] # 0 => v = w)'
    BY <1>f, <2>0 DEF PromptInv, In
  <2> QED BY <1>f, <2>1, <2>2, <2>3 DEF PromptInv, In
<1> QED BY <1>1, <1>2, <1>3, <1>4, <1>5, <1>6, <1>7, <1>8, <1>9, <1>10, <1>11 DEF IInv

LEMMA SendAppendKeeps == ASSUME IInv, SendAppend PROVE IInv'
<1>a. TypeOK /\ RowsNameTheirCopy /\ PathInv /\ ReturnInv
      /\ JobInv /\ FlightInv /\ CleanInv /\ OwedInv /\ OriginInv
  BY DEF IInv
<1>b. (~ DiskLoses => NeededCopiesKept) /\ (~ LateReplies => PromptInv)
  BY DEF IInv
<1>t. Typed
  BY <1>a, Types
<1>f. /\ UNCHANGED <<now, live, home, body, flagged, doomed, nextUid, row, nextRow,
                   todo, job, path, expunged, origin, files>>
      /\ pc = "append" /\ pc' = "await"
      /\ inflight' = inflight \cup {Append(job.row)}
  BY DEF SendAppend, Sound, clock, mailbox, journal, history
<1>1. TypeOK'
  <2>1. (/\ now \in 0 .. MaxTime
           /\ live \subseteq Issued /\ flagged \subseteq Issued /\ doomed \subseteq Issued
           /\ home \in [Uids -> Folders] /\ body \in [Uids -> Contents]
           /\ nextUid \in 1 .. LastUid + 1)'
    BY <1>a DEF TypeOK, SendAppend, Sound, clock, mailbox, Issued
  <2>2. (/\ nextRow \in 1 .. MaxRow + 1 /\ row \in [RowIds -> Row] /\ files \subseteq Paths)'
    BY <1>a DEF TypeOK, SendAppend, Sound, clock, journal
  <2>3. (/\ inflight \subseteq [op : {"expunge", "append"}, row : Used, uid : 0 .. LastUid]
           /\ pc \in {"idle", "purge", "refetch", "store", "expunge", "await", "rollback", "mark",
                      "restore", "append", "finalize", "clean", "clear"}
           /\ todo \subseteq Used)'
    <3>1. job.row \in Used /\ row[job.row] \in Row /\ 0 \in 0 .. LastUid
      BY <1>a, <1>f, <1>t DEF JobInv, Typed, TypeOK
    <3>2. Append(job.row) \in [op : {"expunge", "append"}, row : Used, uid : 0 .. LastUid]
      BY <3>1 DEF Append
    <3> QED BY <1>a, <1>f, <3>2 DEF TypeOK, Used
  <2>4. (/\ job \in [row : 0 .. MaxRow, uid : 0 .. LastUid] /\ path \in Paths \cup {NoPath}
           /\ expunged \in [Uids -> Days \cup {-1}] /\ origin \in [Uids -> 0 .. MaxRow])'
    BY <1>a DEF TypeOK, SendAppend, Sound, clock, history
  <2>5. (/\ faults \in 0 .. MaxFaults /\ external \in 0 .. MaxExternal)'
    BY <1>a DEF TypeOK, Sound, budget, SendAppend
  <2> QED BY <2>1, <2>2, <2>3, <2>4, <2>5 DEF TypeOK
<1>2. RowsNameTheirCopy'
  BY <1>a, <1>f DEF RowsNameTheirCopy, Located, Issued, Used
<1>3. PathInv'
  BY <1>a, <1>f DEF PathInv, Paid, Used
<1>4. ReturnInv'
  BY <1>a, <1>f DEF ReturnInv, Waits, Located, Used
<1>5. JobInv'
  BY <1>a, <1>f DEF JobInv, Used
<1>6. FlightInv'
  BY <1>a, <1>f DEF JobInv, FlightInv, Expunge, Append, Deleting, Returning
<1>7. CleanInv'
  BY <1>f DEF CleanInv
<1>8. OwedInv'
  BY <1>a, <1>f DEF OwedInv, Issued, Used
<1>9. OriginInv'
  BY <1>a, <1>f DEF OriginInv, Returning, Issued, Used
<1>10. (~ DiskLoses => NeededCopiesKept)'
  BY <1>b, <1>f DEF NeededCopiesKept, Used
<1>11. ASSUME ~ LateReplies PROVE PromptInv'
  <2>0. PromptInv
    BY <1>b, <1>11
  <2>1. (inflight # {} => pc = "await")'
    BY <1>f
  <2>2. (\A m \in inflight : m.row = job.row)'
    BY <2>0, <1>f DEF PromptInv, Append
  <2>3. (\A m \in inflight : m.op = "expunge" =>
         row[m.row].path \in files /\ ~ HamVeto(row[m.row].content))'
    BY <2>0, <1>f DEF PromptInv, Append
  <2>4. (pc = "append" \/ (\E m \in inflight : m.op = "append") =>
         \A w \in In("Review") : origin[w] # job.row)'
    BY <2>0, <1>f DEF PromptInv, In
  <2>5. (\A v, w \in In("Review") : origin[v] = origin[w] /\ origin[v] # 0 => v = w)'
    BY <2>0, <1>f DEF PromptInv, In
  <2> QED BY <2>1, <2>2, <2>3, <2>4, <2>5 DEF PromptInv
<1> QED BY <1>1, <1>2, <1>3, <1>4, <1>5, <1>6, <1>7, <1>8, <1>9, <1>10, <1>11 DEF IInv

LEMMA ServerAppendsKeeps == ASSUME NEW m \in inflight, IInv, ServerAppends(m) PROVE IInv'
<1>a. TypeOK /\ RowsNameTheirCopy /\ PathInv /\ ReturnInv
      /\ JobInv /\ FlightInv /\ CleanInv /\ OwedInv /\ OriginInv
  BY DEF IInv
<1>b. (~ DiskLoses => NeededCopiesKept) /\ (~ LateReplies => PromptInv)
  BY DEF IInv
<1>t. Typed
  BY <1>a, Types
<1>f. /\ UNCHANGED <<now, flagged, doomed, row, nextRow, todo, path, expunged, files>>
      /\ inflight' = inflight \ {m} /\ live' = live \cup {nextUid}
      /\ \/ pc = "await" /\ m.row = job.row /\ pc' = "finalize" /\ job' = [job EXCEPT !.uid = nextUid]
         \/ ~ Awaits(m) /\ pc' = pc /\ job' = job
  BY DEF ServerAppends, Sound, clock, journal, Awaits
<1>k. m = Append(m.row) /\ m.row \in Used /\ row[m.row].status \in {"pending_restore", "restored"}
  <2>1. m.op = "append" /\ m.row \in Used
    BY <1>t DEF ServerAppends, Typed
  <2>2. m # Expunge(m.row)
    BY <2>1 DEF Expunge
  <2> QED BY <1>a, <2>1, <2>2 DEF FlightInv, Returning
<1>g. /\ nextUid' = nextUid + 1 /\ nextUid \in Uids
      /\ \A v \in Issued : v # nextUid /\ home'[v] = home[v] /\ body'[v] = body[v]
      /\ home'[nextUid] = "Review" /\ body'[nextUid] = row[m.row].content
  <2>1. /\ nextUid' = nextUid + 1
        /\ home' = [home EXCEPT ![nextUid] = "Review"] /\ body' = [body EXCEPT ![nextUid] = row[m.row].content]
    BY DEF ServerAppends, Issue
  <2>2. nextUid \in Uids
    BY <1>t DEF ServerAppends, Typed, Uids
  <2>3. \A v \in Issued : v # nextUid /\ v \in Uids
    BY <1>t DEF Typed, Issued
  <2> QED BY <1>t, <2>1, <2>2, <2>3 DEF Typed
<1>o. /\ DOMAIN origin' = Uids /\ origin'[nextUid] = m.row
      /\ \A v \in Uids : v # nextUid => origin'[v] = origin[v]
  BY <1>t, <1>g DEF ServerAppends, Typed
<1>n. Used' = Used
  BY <1>f DEF Used
<1>s. \A q \in Used' : q # 0 => Same(q) /\ Settled(q)
  <2> SUFFICES ASSUME NEW q \in Used', q # 0 PROVE Same(q) /\ Settled(q)
    OBVIOUS
  <2>1. q \in Used /\ q \in RowIds
    BY <1>n, <1>t DEF Typed
  <2>2. row'[q] = row[q]
    BY <1>f
  <2> QED BY <2>1, <2>2 DEF Same, Settled
<1>w. Grows /\ Issued \subseteq Issued' /\ Used \subseteq Used'
  BY <1>n, <1>t, <1>g DEF Grows, Issued, Typed
<1>z. 0 \notin Used /\ 0 \notin Used'
  BY <1>n, <1>t DEF Typed
<1>1. TypeOK'
  <2>1. (/\ now \in 0 .. MaxTime
           /\ live \subseteq Issued /\ flagged \subseteq Issued /\ doomed \subseteq Issued
           /\ home \in [Uids -> Folders] /\ body \in [Uids -> Contents]
           /\ nextUid \in 1 .. LastUid + 1)'
    <3>1. Issued' = Issued \cup {nextUid}
      BY <1>g, <1>t DEF Issued, Typed
    <3>2. /\ home' \in [Uids -> Folders] /\ body' \in [Uids -> Contents]
          /\ nextUid' \in 1 .. LastUid + 1
      <4>1. /\ home' = [home EXCEPT ![nextUid] = "Review"]
            /\ body' = [body EXCEPT ![nextUid] = row[m.row].content]
            /\ row[m.row].content \in Contents
        BY <1>a, <1>t DEF ServerAppends, Issue, TypeOK, Row, Typed
      <4>2. home' \in [Uids -> Folders]
        BY <1>a, <4>1 DEF TypeOK, Folders
      <4>3. body' \in [Uids -> Contents]
        BY <1>a, <4>1 DEF TypeOK
      <4>4. nextUid' \in 1 .. LastUid + 1
        BY <1>t, <1>g DEF Uids, Typed
      <4> QED BY <4>2, <4>3, <4>4
    <3>3. live' \subseteq Issued' /\ flagged' \subseteq Issued' /\ doomed' \subseteq Issued'
      BY <1>a, <3>1 DEF ServerAppends, TypeOK
    <3> QED BY <1>a, <1>f, <3>2, <3>3 DEF TypeOK
  <2>2. (/\ nextRow \in 1 .. MaxRow + 1 /\ row \in [RowIds -> Row] /\ files \subseteq Paths)'
    BY <1>a DEF TypeOK, ServerAppends, journal
  <2>3. (/\ inflight \subseteq [op : {"expunge", "append"}, row : Used, uid : 0 .. LastUid]
           /\ pc \in {"idle", "purge", "refetch", "store", "expunge", "await", "rollback", "mark",
                      "restore", "append", "finalize", "clean", "clear"}
           /\ todo \subseteq Used)'
    BY <1>a, <1>f DEF TypeOK, Used
  <2>4. (/\ job \in [row : 0 .. MaxRow, uid : 0 .. LastUid] /\ path \in Paths \cup {NoPath}
           /\ expunged \in [Uids -> Days \cup {-1}] /\ origin \in [Uids -> 0 .. MaxRow])'
    <3>1. job' \in [row : 0 .. MaxRow, uid : 0 .. LastUid]
      <4>1. nextUid \in 0 .. LastUid
        BY <1>g DEF Uids
      <4> QED BY <1>a, <1>f, <4>1 DEF TypeOK
    <3>2. origin' \in [Uids -> 0 .. MaxRow]
      <4>1. m.row \in 0 .. MaxRow
        <5>1. m.row \in RowIds
          BY <1>t DEF Typed
        <5> QED BY <5>1 DEF RowIds
      <4>2. origin' = [origin EXCEPT ![nextUid] = m.row]
        BY DEF ServerAppends
      <4> QED BY <1>a, <4>1, <4>2 DEF TypeOK
    <3> QED BY <1>a, <1>f, <3>1, <3>2 DEF TypeOK
  <2>5. (/\ faults \in 0 .. MaxFaults /\ external \in 0 .. MaxExternal)'
    BY <1>a DEF TypeOK, Sound, budget, ServerAppends
  <2> QED BY <2>1, <2>2, <2>3, <2>4, <2>5 DEF TypeOK
<1>2. RowsNameTheirCopy'
  <2>1. 0 \in Used' /\ Located(0)' => Fits(0)'
    BY <1>a, <1>k, <1>z
  <2> QED BY <1>a, <1>s, <1>w, <2>1, LocationsHold
<1>3. PathInv'
  BY <1>a, <1>f DEF PathInv, Paid, Used
<1>4. ReturnInv'
  BY <1>a, <1>f DEF ReturnInv, Waits, Located, Used
<1>5. JobInv'
  <2>1. CASE ~ Awaits(m)
    <3>1. /\ pc' = pc /\ job' = job /\ UNCHANGED <<row, todo, files, nextRow>>
          /\ \A n \in inflight : pc = "await" /\ n.row = job.row => n \in inflight'
      BY <1>f, <2>1 DEF Awaits
    <3>2. \A v \in Issued : v \in Issued' /\ home'[v] = home[v] /\ body'[v] = body[v]
      BY <1>w DEF Grows
    <3>3. (Expunge(job.row) \in inflight /\ pc = "await" => Expunge(job.row) \in inflight')
          /\ (Append(job.row) \in inflight /\ pc = "await" => Append(job.row) \in inflight')
      BY <3>1 DEF Expunge, Append
    <3> QED BY <1>a, <1>n, <3>1, <3>2, <3>3 DEF JobInv, HamVeto, Expunge
  <2>2. CASE pc = "await" /\ m.row = job.row
    <3>1. pc' = "finalize" /\ job'.row = m.row /\ job'.uid = nextUid
      BY <1>a, <1>f, <2>2 DEF Awaits, TypeOK
    <3>2. todo = {}
      <4>1. Expunge(job.row) \notin inflight
        <5> SUFFICES ASSUME Expunge(job.row) \in inflight PROVE FALSE
          OBVIOUS
        <5>1. Deleting(job.row)
          BY <1>a DEF FlightInv, Expunge, Append
        <5> QED BY <1>k, <2>2, <5>1 DEF Deleting
      <4> QED BY <1>a, <2>2, <4>1 DEF JobInv
    <3>3. nextUid \in Issued'
      BY <1>g, <1>t DEF Issued, Typed
    <3> QED BY <1>f, <1>g, <1>k, <1>n, <3>1, <3>2, <3>3 DEF JobInv
  <2> QED BY <1>f, <2>1, <2>2
<1>6. FlightInv'
  BY <1>a, <1>f DEF FlightInv, Expunge, Deleting, Returning
<1>7. CleanInv'
  BY <1>a, <1>f DEF CleanInv, Expired, Used
<1>8. OwedInv'
  <2>1. 0 \in Used => row'[0].content = row[0].content /\ row[0].until <= row'[0].until
    BY <1>t DEF Typed
  <2>2. \A q \in Used : row'[q].until \in Nat
    BY <1>f, <1>t DEF Typed
  <2> QED BY <1>a, <1>f, <1>s, <1>t, <1>w, <2>2, OwedHolds
<1>9. OriginInv'
  BY <1>a, <1>t, <1>f, <1>k, <1>g, <1>o, <1>z DEF OriginInv, Returning, Issued, Used, Typed
<1>10. (~ DiskLoses => NeededCopiesKept)'
  BY <1>b, <1>f DEF NeededCopiesKept, Used
<1>11. ASSUME ~ LateReplies PROVE PromptInv'
  <2>0. PromptInv
    BY <1>b, <1>11
  <2>1. inflight' = {} /\ pc = "await" /\ pc' # "append"
    BY <1>a, <1>f, <1>t, <2>0, OneInFlight DEF PromptInv
  <2>2. (\A v, w \in In("Review") : origin[v] = origin[w] /\ origin[v] # 0 => v = w)'
    <3>1. \A v \in In("Review") : origin[v] # m.row /\ v \in Issued /\ v \in Uids
      BY <1>t, <2>0 DEF PromptInv, Typed, ServerAppends, In
    <3>2. \A v \in In("Review")' : v = nextUid \/ v \in In("Review")
      BY <1>f, <1>g, <1>t DEF In, Typed
    <3>3. \A v \in In("Review") : origin'[v] = origin[v]
      BY <1>g, <1>o, <3>1
    <3> QED BY <1>o, <2>0, <3>1, <3>2 DEF PromptInv
  <2> QED BY <2>1, <2>2 DEF PromptInv
<1> QED BY <1>1, <1>2, <1>3, <1>4, <1>5, <1>6, <1>7, <1>8, <1>9, <1>10, <1>11 DEF IInv

LEMMA ServerRefusesAppendKeeps == ASSUME NEW m \in inflight, IInv, ServerRefusesAppend(m) PROVE IInv'
<1>a. TypeOK /\ RowsNameTheirCopy /\ PathInv /\ ReturnInv
      /\ JobInv /\ FlightInv /\ CleanInv /\ OwedInv /\ OriginInv
  BY DEF IInv
<1>b. (~ DiskLoses => NeededCopiesKept) /\ (~ LateReplies => PromptInv)
  BY DEF IInv
<1>t. Typed
  BY <1>a, Types
<1>f. /\ UNCHANGED <<now, live, home, body, flagged, doomed, nextUid, row, nextRow,
                   expunged, origin, files>>
      /\ pc' = "idle" /\ todo' = {} /\ job' = [row |-> 0, uid |-> 0]
      /\ m.op = "append" /\ pc = "await" /\ m.row = job.row /\ inflight' = inflight \ {m}
  BY DEF ServerRefusesAppend, Fault, Done, clock, mailbox, journal, history, Awaits
<1>1. TypeOK'
  <2>1. (/\ now \in 0 .. MaxTime
           /\ live \subseteq Issued /\ flagged \subseteq Issued /\ doomed \subseteq Issued
           /\ home \in [Uids -> Folders] /\ body \in [Uids -> Contents]
           /\ nextUid \in 1 .. LastUid + 1)'
    BY <1>a DEF TypeOK, ServerRefusesAppend, Fault, Done, clock, mailbox, Issued
  <2>2. (/\ nextRow \in 1 .. MaxRow + 1 /\ row \in [RowIds -> Row] /\ files \subseteq Paths)'
    BY <1>a DEF TypeOK, ServerRefusesAppend, Fault, Done, journal
  <2>3. (/\ inflight \subseteq [op : {"expunge", "append"}, row : Used, uid : 0 .. LastUid]
           /\ pc \in {"idle", "purge", "refetch", "store", "expunge", "await", "rollback", "mark",
                      "restore", "append", "finalize", "clean", "clear"}
           /\ todo \subseteq Used)'
    BY <1>a, <1>f DEF TypeOK, Used
  <2>4. (/\ job \in [row : 0 .. MaxRow, uid : 0 .. LastUid] /\ path \in Paths \cup {NoPath}
           /\ expunged \in [Uids -> Days \cup {-1}] /\ origin \in [Uids -> 0 .. MaxRow])'
    BY RetentionAssumption, <1>a
      DEF RetentionAssumption, TypeOK, ServerRefusesAppend, Fault, Done, Awaits, clock,
          mailbox, journal, history, LastUid
  <2>5. (/\ faults \in 0 .. MaxFaults /\ external \in 0 .. MaxExternal)'
    BY RetentionAssumption, <1>a DEF TypeOK, Fault, ServerRefusesAppend
  <2> QED BY <2>1, <2>2, <2>3, <2>4, <2>5 DEF TypeOK
<1>2. RowsNameTheirCopy'
  BY <1>a, <1>f DEF RowsNameTheirCopy, Located, Issued, Used
<1>3. PathInv'
  BY <1>a, <1>f DEF PathInv, Paid, Used
<1>4. ReturnInv'
  BY <1>a, <1>f DEF ReturnInv, Waits, Located, Used
<1>5. JobInv'
  BY <1>f DEF JobInv
<1>6. FlightInv'
  BY <1>a, <1>f DEF FlightInv, Expunge, Deleting, Returning
<1>7. CleanInv'
  BY <1>f DEF CleanInv
<1>8. OwedInv'
  BY <1>a, <1>f DEF OwedInv, Issued, Used
<1>9. OriginInv'
  BY <1>a, <1>f DEF OriginInv, Returning, Issued, Used
<1>10. (~ DiskLoses => NeededCopiesKept)'
  BY <1>b, <1>f DEF NeededCopiesKept, Used
<1>11. ASSUME ~ LateReplies PROVE PromptInv'
  <2>0. PromptInv
    BY <1>b, <1>11
  <2>1. inflight' = {} /\ pc = "await" /\ pc' # "append"
    BY <1>a, <1>f, <1>t, <2>0, OneInFlight
  <2>2. (\A v, w \in In("Review") : origin[v] = origin[w] /\ origin[v] # 0 => v = w)'
    BY <1>f, <2>0 DEF PromptInv, In
  <2> QED BY <2>1, <2>2 DEF PromptInv
<1> QED BY <1>1, <1>2, <1>3, <1>4, <1>5, <1>6, <1>7, <1>8, <1>9, <1>10, <1>11 DEF IInv

LEMMA FinalizeRestoreKeeps == ASSUME IInv, FinalizeRestore PROVE IInv'
<1>a. TypeOK /\ RowsNameTheirCopy /\ PathInv /\ ReturnInv
      /\ JobInv /\ FlightInv /\ CleanInv /\ OwedInv /\ OriginInv
  BY DEF IInv
<1>b. (~ DiskLoses => NeededCopiesKept) /\ (~ LateReplies => PromptInv)
  BY DEF IInv
<1>t. Typed
  BY <1>a, Types
<1>f. /\ UNCHANGED <<now, live, home, body, flagged, doomed, nextUid, nextRow, expunged,
                   origin, inflight, files>>
      /\ pc = "finalize" /\ pc' = "idle" /\ todo' = {} /\ job' = [row |-> 0, uid |-> 0]
  BY DEF FinalizeRestore, Sound, Done, clock, mailbox, history
<1>r. /\ job.row \in Used /\ DOMAIN row' = RowIds
      /\ \A q \in RowIds : q # job.row => row'[q] = row[q]
      /\ row'[job.row].status = "restored" /\ row'[job.row].folder = "Review" /\ row'[job.row].uid = job.uid
      /\ row'[job.row].content = row[job.row].content
      /\ row'[job.row].veto = row[job.row].veto
      /\ row'[job.row].since = row[job.row].since
      /\ row'[job.row].until = row[job.row].until
      /\ row'[job.row].path = row[job.row].path
  <2>1. job.row \in Used /\ job.row \in RowIds /\ row[job.row] \in Row
    BY <1>a, <1>t DEF FinalizeRestore, JobInv, Typed, TypeOK
  <2> QED BY <1>t, <2>1 DEF FinalizeRestore, Typed
<1>x. PICK x \in Nat : x = job.row
  BY <1>t DEF Typed
<1>n. Used' = Used
  BY <1>f DEF Used
<1>s. \A q \in Used' : q # x => Same(q) /\ Settled(q)
  <2> SUFFICES ASSUME NEW q \in Used', q # x PROVE Same(q) /\ Settled(q)
    OBVIOUS
  <2>1. q \in Used /\ q \in RowIds
    BY <1>n, <1>t DEF Typed
  <2>2. row'[q] = row[q]
    BY <1>r, <1>x, <2>1
  <2> QED BY <2>1, <2>2 DEF Same, Settled
<1>w. Grows /\ Issued \subseteq Issued' /\ Used \subseteq Used'
  BY <1>f, <1>n DEF Grows, Issued
<1>1. TypeOK'
  <2>1. (/\ now \in 0 .. MaxTime
           /\ live \subseteq Issued /\ flagged \subseteq Issued /\ doomed \subseteq Issued
           /\ home \in [Uids -> Folders] /\ body \in [Uids -> Contents]
           /\ nextUid \in 1 .. LastUid + 1)'
    BY <1>a DEF TypeOK, FinalizeRestore, Sound, Done, clock, mailbox, Issued
  <2>2. (/\ nextRow \in 1 .. MaxRow + 1 /\ row \in [RowIds -> Row] /\ files \subseteq Paths)'
    <3>1. job.row \in RowIds /\ row[job.row] \in Row /\ "restored" \in Statuses /\ "Review" \in Folders
            /\ job.uid \in 0 .. LastUid
      BY <1>a, <1>t, <1>r DEF TypeOK, Typed, Statuses, Folders
    <3>2. row' = [row EXCEPT ![job.row] = [row[job.row] EXCEPT !.folder = "Review", !.uid = job.uid, !.status = "restored"]]
      BY DEF FinalizeRestore
    <3>3. row' \in [RowIds -> Row]
      BY <1>a, <3>1, <3>2, RowTypes DEF TypeOK
    <3> QED BY <1>a, <1>f, <3>3 DEF TypeOK
  <2>3. (/\ inflight \subseteq [op : {"expunge", "append"}, row : Used, uid : 0 .. LastUid]
           /\ pc \in {"idle", "purge", "refetch", "store", "expunge", "await", "rollback", "mark",
                      "restore", "append", "finalize", "clean", "clear"}
           /\ todo \subseteq Used)'
    BY <1>a, <1>f DEF TypeOK, Used
  <2>4. (/\ job \in [row : 0 .. MaxRow, uid : 0 .. LastUid] /\ path \in Paths \cup {NoPath}
           /\ expunged \in [Uids -> Days \cup {-1}] /\ origin \in [Uids -> 0 .. MaxRow])'
    <3>1. job' = [row |-> 0, uid |-> 0] /\ path' = NoPath
      BY DEF FinalizeRestore, Done
    <3> QED BY <1>a, <1>f, <3>1, JobTypes DEF TypeOK
  <2>5. (/\ faults \in 0 .. MaxFaults /\ external \in 0 .. MaxExternal)'
    BY <1>a DEF TypeOK, Sound, budget, FinalizeRestore
  <2> QED BY <2>1, <2>2, <2>3, <2>4, <2>5 DEF TypeOK
<1>2. RowsNameTheirCopy'
  <2>1. x \in Used' /\ Located(x)' => Fits(x)'
    BY <1>a, <1>f, <1>r, <1>x DEF Fits, Issued, JobInv
  <2> QED BY <1>a, <1>s, <1>w, <2>1, LocationsHold
<1>3. PathInv'
  <2>1. x \in Used' => Paid(x)'
    BY <1>a, <1>f, <1>r, <1>x DEF Paid, PathInv
  <2> QED BY <1>a, <1>f, <1>s, <2>1, PathsHold
<1>4. ReturnInv'
  <2>1. x \in Used' => Waits(x)'
    BY <1>a, <1>r, <1>x DEF Waits
  <2> QED BY <1>a, <1>s, <2>1, ReturnsHold
<1>5. JobInv'
  BY <1>f DEF JobInv
<1>6. FlightInv'
  <2>1. x \in Used => ~ Flying(x) /\ (Returning(x) => Returning(x)')
    BY <1>a, <1>f, <1>r, <1>x DEF Flying, Deleting, Returning, JobInv
  <2> QED BY <1>a, <1>f, <1>s, <1>t, <1>w, <2>1, FlightsHold
<1>7. CleanInv'
  BY <1>f DEF CleanInv
<1>8. OwedInv'
  <2>1. x \in Used => row'[x].content = row[x].content /\ row[x].until <= row'[x].until
    BY <1>a, <1>t, <1>r DEF Typed
  <2>2. \A q \in Used : row'[q].until \in Nat
    BY <1>r, <1>t DEF Typed
  <2> QED BY <1>a, <1>f, <1>s, <1>t, <1>w, <2>1, <2>2, OwedHolds
<1>9. OriginInv'
  <2>1. x \in Used => row'[x].content = row[x].content /\ (Returning(x) => Returning(x)')
    BY <1>a, <1>r, <1>x DEF Returning
  <2> QED BY <1>a, <1>f, <1>s, <1>t, <1>w, <2>1, OriginsHold
<1>10. (~ DiskLoses => NeededCopiesKept)'
  <2> SUFFICES ASSUME ~ DiskLoses PROVE NeededCopiesKept'
    OBVIOUS
  <2>1. x \in Used' => Backed(x)'
    BY <1>a, <1>b, <1>f, <1>r, <1>x DEF Backed, NeededCopiesKept
  <2> QED BY <1>b, <1>f, <1>s, <2>1, NeedsHold
<1>11. ASSUME ~ LateReplies PROVE PromptInv'
  <2>0. PromptInv
    BY <1>b, <1>11
  <2>1. (inflight # {} => pc = "await")'
    BY <2>0, <1>f DEF PromptInv
  <2>2. (\A m \in inflight : m.row = job.row)'
    BY <2>0, <1>f DEF PromptInv
  <2>3. (\A m \in inflight : m.op = "expunge" =>
         row[m.row].path \in files /\ ~ HamVeto(row[m.row].content))'
    BY <2>0, <1>f DEF PromptInv
  <2>4. (pc = "append" \/ (\E m \in inflight : m.op = "append") =>
         \A w \in In("Review") : origin[w] # job.row)'
    BY <2>0, <1>f DEF PromptInv
  <2>5. (\A v, w \in In("Review") : origin[v] = origin[w] /\ origin[v] # 0 => v = w)'
    BY <2>0, <1>f DEF PromptInv, In
  <2> QED BY <2>1, <2>2, <2>3, <2>4, <2>5 DEF PromptInv
<1> QED BY <1>1, <1>2, <1>3, <1>4, <1>5, <1>6, <1>7, <1>8, <1>9, <1>10, <1>11 DEF IInv

LEMMA AppendUnconfirmedKeeps == ASSUME IInv, AppendUnconfirmed PROVE IInv'
<1>a. TypeOK /\ RowsNameTheirCopy /\ PathInv /\ ReturnInv
      /\ JobInv /\ FlightInv /\ CleanInv /\ OwedInv /\ OriginInv
  BY DEF IInv
<1>b. (~ DiskLoses => NeededCopiesKept) /\ (~ LateReplies => PromptInv)
  BY DEF IInv
<1>t. Typed
  BY <1>a, Types
<1>1. TypeOK'
  <2>1. (/\ now \in 0 .. MaxTime
           /\ live \subseteq Issued /\ flagged \subseteq Issued /\ doomed \subseteq Issued
           /\ home \in [Uids -> Folders] /\ body \in [Uids -> Contents]
           /\ nextUid \in 1 .. LastUid + 1)'
    BY <1>a DEF TypeOK, AppendUnconfirmed, Fault, Done, clock, mailbox, Issued
  <2>2. (/\ nextRow \in 1 .. MaxRow + 1 /\ row \in [RowIds -> Row] /\ files \subseteq Paths)'
    BY <1>a DEF TypeOK, AppendUnconfirmed, Fault, Done, journal
  <2>3. (/\ inflight \subseteq [op : {"expunge", "append"}, row : Used, uid : 0 .. LastUid]
           /\ pc \in {"idle", "purge", "refetch", "store", "expunge", "await", "rollback", "mark",
                      "restore", "append", "finalize", "clean", "clear"}
           /\ todo \subseteq Used)'
    BY <1>a DEF TypeOK, AppendUnconfirmed, Fault, Done, clock, journal, Used
  <2>4. (/\ job \in [row : 0 .. MaxRow, uid : 0 .. LastUid] /\ path \in Paths \cup {NoPath}
           /\ expunged \in [Uids -> Days \cup {-1}] /\ origin \in [Uids -> 0 .. MaxRow])'
    BY RetentionAssumption, <1>a
      DEF RetentionAssumption, TypeOK, AppendUnconfirmed, Fault, Done, clock, mailbox,
          journal, history, LastUid
  <2>5. (/\ faults \in 0 .. MaxFaults /\ external \in 0 .. MaxExternal)'
    BY RetentionAssumption, <1>a DEF TypeOK, Fault, AppendUnconfirmed
  <2> QED BY <2>1, <2>2, <2>3, <2>4, <2>5 DEF TypeOK
<1>2. RowsNameTheirCopy'
  BY <1>a
    DEF RowsNameTheirCopy, Located, Issued, Used, AppendUnconfirmed, Fault, Done, mailbox,
        journal
<1>3. PathInv'
  BY <1>a DEF PathInv, Paid, Used, NoPath, AppendUnconfirmed, Fault, Done, clock, journal
<1>4. ReturnInv'
  BY <1>a DEF ReturnInv, Waits, Located, Used, AppendUnconfirmed, Fault, Done, journal
<1>5. JobInv'
  BY <1>a DEF AppendUnconfirmed, Fault, Done, clock, JobInv
<1>6. FlightInv'
  BY <1>a
    DEF AppendUnconfirmed, Fault, Done, clock, mailbox, journal, history, FlightInv,
        Expunge, Deleting, Returning
<1>7. CleanInv'
  BY <1>a DEF AppendUnconfirmed, Fault, Done, clock, mailbox, CleanInv
<1>8. OwedInv'
  BY <1>a
    DEF OwedInv, Issued, Used, AppendUnconfirmed, Fault, Done, clock, mailbox, journal,
        history
<1>9. OriginInv'
  BY <1>a
    DEF OriginInv, Returning, Issued, Used, AppendUnconfirmed, Fault, Done, mailbox,
        journal, history
<1>10. (~ DiskLoses => NeededCopiesKept)'
  BY <1>b DEF NeededCopiesKept, Used, AppendUnconfirmed, Fault, Done, clock, journal
<1>11. ASSUME ~ LateReplies PROVE PromptInv'
  <2>0. PromptInv
    BY <1>b, <1>11
  <2>1. (inflight # {} => pc = "await")'
    BY <2>0 DEF AppendUnconfirmed, PromptInv
  <2>2. (\A m \in inflight : m.row = job.row)'
    BY <2>0 DEF AppendUnconfirmed, PromptInv
  <2>3. (\A m \in inflight : m.op = "expunge" =>
         row[m.row].path \in files /\ ~ HamVeto(row[m.row].content))'
    BY <2>0 DEF AppendUnconfirmed, PromptInv
  <2>4. (pc = "append" \/ (\E m \in inflight : m.op = "append") =>
         \A w \in In("Review") : origin[w] # job.row)'
    BY <2>0, <1>a DEF AppendUnconfirmed, Fault, Done, clock, mailbox, PromptInv
  <2>5. (\A v, w \in In("Review") : origin[v] = origin[w] /\ origin[v] # 0 => v = w)'
    BY <2>0 DEF AppendUnconfirmed, Fault, Done, clock, mailbox, history, PromptInv, In
  <2> QED BY <2>1, <2>2, <2>3, <2>4, <2>5 DEF PromptInv
<1> QED BY <1>1, <1>2, <1>3, <1>4, <1>5, <1>6, <1>7, <1>8, <1>9, <1>10, <1>11 DEF IInv

LEMMA CleanupStartKeeps == ASSUME IInv, CleanupStart PROVE IInv'
<1>a. TypeOK /\ RowsNameTheirCopy /\ PathInv /\ ReturnInv
      /\ JobInv /\ FlightInv /\ CleanInv /\ OwedInv /\ OriginInv
  BY DEF IInv
<1>b. (~ DiskLoses => NeededCopiesKept) /\ (~ LateReplies => PromptInv)
  BY DEF IInv
<1>t. Typed
  BY <1>a, Types
<1>1. TypeOK'
  <2>1. (/\ now \in 0 .. MaxTime
           /\ live \subseteq Issued /\ flagged \subseteq Issued /\ doomed \subseteq Issued
           /\ home \in [Uids -> Folders] /\ body \in [Uids -> Contents]
           /\ nextUid \in 1 .. LastUid + 1)'
    BY <1>a DEF TypeOK, CleanupStart, Sound, clock, mailbox, Issued
  <2>2. (/\ nextRow \in 1 .. MaxRow + 1 /\ row \in [RowIds -> Row] /\ files \subseteq Paths)'
    BY <1>a DEF TypeOK, CleanupStart, Sound, clock, journal
  <2>3. (/\ inflight \subseteq [op : {"expunge", "append"}, row : Used, uid : 0 .. LastUid]
           /\ pc \in {"idle", "purge", "refetch", "store", "expunge", "await", "rollback", "mark",
                      "restore", "append", "finalize", "clean", "clear"}
           /\ todo \subseteq Used)'
    BY <1>a DEF TypeOK, CleanupStart, Sound, Idle, Expired, clock, mailbox, journal, Used
  <2>4. (/\ job \in [row : 0 .. MaxRow, uid : 0 .. LastUid] /\ path \in Paths \cup {NoPath}
           /\ expunged \in [Uids -> Days \cup {-1}] /\ origin \in [Uids -> 0 .. MaxRow])'
    BY <1>a DEF TypeOK, CleanupStart, Sound, clock, history
  <2>5. (/\ faults \in 0 .. MaxFaults /\ external \in 0 .. MaxExternal)'
    BY <1>a DEF TypeOK, Sound, budget, CleanupStart
  <2> QED BY <2>1, <2>2, <2>3, <2>4, <2>5 DEF TypeOK
<1>2. RowsNameTheirCopy'
  BY <1>a
    DEF RowsNameTheirCopy, Located, Issued, Used, CleanupStart, Sound, clock, mailbox,
        journal
<1>3. PathInv'
  BY <1>a DEF PathInv, Paid, Used, NoPath, CleanupStart, Sound, clock, journal
<1>4. ReturnInv'
  BY <1>a DEF ReturnInv, Waits, Located, Used, CleanupStart, Sound, clock, journal
<1>5. JobInv'
  BY <1>a DEF CleanupStart, JobInv
<1>6. FlightInv'
  BY <1>a
    DEF CleanupStart, Sound, Idle, Expired, clock, mailbox, journal, history, budget,
        FlightInv, Expunge, Deleting, Returning
<1>7. CleanInv'
  BY <1>a DEF CleanupStart, Sound, Idle, Expired, clock, mailbox, journal, CleanInv, Used
<1>8. OwedInv'
  BY <1>a DEF OwedInv, Issued, Used, CleanupStart, Sound, clock, mailbox, journal, history
<1>9. OriginInv'
  BY <1>a
    DEF OriginInv, Returning, Issued, Used, CleanupStart, Sound, clock, mailbox, journal,
        history
<1>10. (~ DiskLoses => NeededCopiesKept)'
  BY <1>b DEF NeededCopiesKept, Used, CleanupStart, Sound, clock, journal
<1>11. ASSUME ~ LateReplies PROVE PromptInv'
  <2>0. PromptInv
    BY <1>b, <1>11
  <2>1. (inflight # {} => pc = "await")'
    BY <2>0, <1>a DEF CleanupStart, Idle, PromptInv
  <2>2. (\A m \in inflight : m.row = job.row)'
    BY <2>0 DEF CleanupStart, PromptInv
  <2>3. (\A m \in inflight : m.op = "expunge" =>
         row[m.row].path \in files /\ ~ HamVeto(row[m.row].content))'
    BY <2>0
      DEF CleanupStart, Sound, clock, mailbox, journal, history, PromptInv, HamVeto, Used
  <2>4. (pc = "append" \/ (\E m \in inflight : m.op = "append") =>
         \A w \in In("Review") : origin[w] # job.row)'
    BY <2>0, <1>a DEF CleanupStart, Idle, PromptInv
  <2>5. (\A v, w \in In("Review") : origin[v] = origin[w] /\ origin[v] # 0 => v = w)'
    BY <2>0 DEF CleanupStart, Sound, clock, mailbox, journal, history, PromptInv, In
  <2> QED BY <2>1, <2>2, <2>3, <2>4, <2>5 DEF PromptInv
<1> QED BY <1>1, <1>2, <1>3, <1>4, <1>5, <1>6, <1>7, <1>8, <1>9, <1>10, <1>11 DEF IInv

LEMMA DeleteFileKeeps == ASSUME NEW r \in RowIds, IInv, DeleteFile(r) PROVE IInv'
<1>a. TypeOK /\ RowsNameTheirCopy /\ PathInv /\ ReturnInv
      /\ JobInv /\ FlightInv /\ CleanInv /\ OwedInv /\ OriginInv
  BY DEF IInv
<1>b. (~ DiskLoses => NeededCopiesKept) /\ (~ LateReplies => PromptInv)
  BY DEF IInv
<1>t. Typed
  BY <1>a, Types
<1>f. /\ UNCHANGED <<now, live, home, body, flagged, doomed, nextUid, row, nextRow, job,
                   expunged, origin, inflight>>
      /\ pc = "clean" /\ pc' = "clear" /\ r \in todo /\ path' = row[r].path
      /\ todo' = {q \in todo : row[q].path # row[r].path}
      /\ files' = files \ {row[r].path}
  BY DEF DeleteFile, Sound, clock, mailbox, journal, history
<1>1. TypeOK'
  <2>1. (/\ now \in 0 .. MaxTime
           /\ live \subseteq Issued /\ flagged \subseteq Issued /\ doomed \subseteq Issued
           /\ home \in [Uids -> Folders] /\ body \in [Uids -> Contents]
           /\ nextUid \in 1 .. LastUid + 1)'
    BY <1>a DEF TypeOK, DeleteFile, Sound, clock, mailbox, Issued
  <2>2. (/\ nextRow \in 1 .. MaxRow + 1 /\ row \in [RowIds -> Row] /\ files \subseteq Paths)'
    BY <1>a, <1>f DEF TypeOK
  <2>3. (/\ inflight \subseteq [op : {"expunge", "append"}, row : Used, uid : 0 .. LastUid]
           /\ pc \in {"idle", "purge", "refetch", "store", "expunge", "await", "rollback", "mark",
                      "restore", "append", "finalize", "clean", "clear"}
           /\ todo \subseteq Used)'
    BY <1>a, <1>f DEF TypeOK, Used
  <2>4. (/\ job \in [row : 0 .. MaxRow, uid : 0 .. LastUid] /\ path \in Paths \cup {NoPath}
           /\ expunged \in [Uids -> Days \cup {-1}] /\ origin \in [Uids -> 0 .. MaxRow])'
    <3>1. path' \in Paths \cup {NoPath}
      BY <1>f, <1>t DEF Typed
    <3> QED BY <1>a, <1>f, <3>1 DEF TypeOK
  <2>5. (/\ faults \in 0 .. MaxFaults /\ external \in 0 .. MaxExternal)'
    BY <1>a DEF TypeOK, Sound, budget, DeleteFile
  <2> QED BY <2>1, <2>2, <2>3, <2>4, <2>5 DEF TypeOK
<1>2. RowsNameTheirCopy'
  BY <1>a, <1>f DEF RowsNameTheirCopy, Located, Issued, Used
<1>3. PathInv'
  BY <1>a, <1>f DEF PathInv, Paid, Used
<1>4. ReturnInv'
  BY <1>a, <1>f DEF ReturnInv, Waits, Located, Used
<1>5. JobInv'
  BY <1>f DEF JobInv
<1>6. FlightInv'
  BY <1>a, <1>f DEF FlightInv, Expunge, Deleting, Returning
<1>7. CleanInv'
  BY <1>a, <1>f DEF Needed, Terminal, CleanInv, Expired, Used
<1>8. OwedInv'
  BY <1>a, <1>f DEF OwedInv, Issued, Used
<1>9. OriginInv'
  BY <1>a, <1>f DEF OriginInv, Returning, Issued, Used
<1>10. (~ DiskLoses => NeededCopiesKept)'
  BY <1>a, <1>b, <1>t, <1>f
    DEF CleanInv, Expired, Needed, Terminal, NeededCopiesKept, Used, Typed
<1>11. ASSUME ~ LateReplies PROVE PromptInv'
  <2>0. PromptInv
    BY <1>b, <1>11
  <2>1. (inflight # {} => pc = "await")'
    BY <2>0, <1>f DEF PromptInv
  <2>2. (\A m \in inflight : m.row = job.row)'
    BY <2>0, <1>f DEF PromptInv
  <2>3. (\A m \in inflight : m.op = "expunge" =>
         row[m.row].path \in files /\ ~ HamVeto(row[m.row].content))'
    BY <2>0, <1>f DEF PromptInv
  <2>4. (pc = "append" \/ (\E m \in inflight : m.op = "append") =>
         \A w \in In("Review") : origin[w] # job.row)'
    BY <2>0, <1>f DEF PromptInv
  <2>5. (\A v, w \in In("Review") : origin[v] = origin[w] /\ origin[v] # 0 => v = w)'
    BY <2>0, <1>f DEF PromptInv, In
  <2> QED BY <2>1, <2>2, <2>3, <2>4, <2>5 DEF PromptInv
<1> QED BY <1>1, <1>2, <1>3, <1>4, <1>5, <1>6, <1>7, <1>8, <1>9, <1>10, <1>11 DEF IInv

LEMMA ClearArchivePathKeeps == ASSUME IInv, ClearArchivePath PROVE IInv'
<1>a. TypeOK /\ RowsNameTheirCopy /\ PathInv /\ ReturnInv
      /\ JobInv /\ FlightInv /\ CleanInv /\ OwedInv /\ OriginInv
  BY DEF IInv
<1>b. (~ DiskLoses => NeededCopiesKept) /\ (~ LateReplies => PromptInv)
  BY DEF IInv
<1>t. Typed
  BY <1>a, Types
<1>f. /\ UNCHANGED <<now, live, home, body, flagged, doomed, nextUid, nextRow, todo,
                   job, path, expunged, origin, inflight, files>>
      /\ pc = "clear" /\ pc' = "clean"
  BY DEF ClearArchivePath, Sound, clock, mailbox, history
<1>r. /\ DOMAIN row' = RowIds
      /\ \A q \in RowIds : (q \notin Used \/ row[q].path # path) => row'[q] = row[q]
      /\ \A q \in Used : row[q].path = path =>
           /\ row'[q].path = NoPath /\ row'[q].until = 0
           /\ row'[q].content = row[q].content /\ row'[q].folder = row[q].folder
           /\ row'[q].uid = row[q].uid /\ row'[q].status = row[q].status
           /\ row'[q].veto = row[q].veto
  <2>1. \A q \in Used : q \in RowIds /\ row[q] \in Row
    BY <1>a, <1>t DEF Typed, TypeOK
  <2> QED BY <2>1 DEF ClearArchivePath, Row
<1>1. TypeOK'
  <2>1. (/\ now \in 0 .. MaxTime
           /\ live \subseteq Issued /\ flagged \subseteq Issued /\ doomed \subseteq Issued
           /\ home \in [Uids -> Folders] /\ body \in [Uids -> Contents]
           /\ nextUid \in 1 .. LastUid + 1)'
    BY <1>a DEF TypeOK, ClearArchivePath, Sound, clock, mailbox, Issued
  <2>2. (/\ nextRow \in 1 .. MaxRow + 1 /\ row \in [RowIds -> Row] /\ files \subseteq Paths)'
    <3>1. ASSUME NEW q \in RowIds PROVE row'[q] \in Row
      <4>1. row[q] \in Row /\ NoPath \in Paths \cup {NoPath} /\ 0 \in Days
        BY <1>a, RetentionAssumption DEF TypeOK, Days
      <4>2. row'[q] = row[q] \/ row'[q] = [row[q] EXCEPT !.path = NoPath, !.until = 0]
        BY DEF ClearArchivePath
      <4> QED BY <4>1, <4>2 DEF Row
    <3>2. row' = [q \in RowIds |-> row'[q]]
      BY DEF ClearArchivePath
    <3> QED BY <1>a, <1>f, <3>1, <3>2 DEF TypeOK
  <2>3. (/\ inflight \subseteq [op : {"expunge", "append"}, row : Used, uid : 0 .. LastUid]
           /\ pc \in {"idle", "purge", "refetch", "store", "expunge", "await", "rollback", "mark",
                      "restore", "append", "finalize", "clean", "clear"}
           /\ todo \subseteq Used)'
    BY <1>a DEF TypeOK, ClearArchivePath, Used
  <2>4. (/\ job \in [row : 0 .. MaxRow, uid : 0 .. LastUid] /\ path \in Paths \cup {NoPath}
           /\ expunged \in [Uids -> Days \cup {-1}] /\ origin \in [Uids -> 0 .. MaxRow])'
    BY <1>a DEF TypeOK, ClearArchivePath, Sound, history
  <2>5. (/\ faults \in 0 .. MaxFaults /\ external \in 0 .. MaxExternal)'
    BY <1>a DEF TypeOK, Sound, budget, ClearArchivePath
  <2> QED BY <2>1, <2>2, <2>3, <2>4, <2>5 DEF TypeOK
<1>2. RowsNameTheirCopy'
  <2> SUFFICES ASSUME NEW q \in Used, Located(q)' PROVE Fits(q)'
    BY <1>f DEF RowsNameTheirCopy, Fits, Used
  <2>1. row'[q].content = row[q].content /\ row'[q].folder = row[q].folder /\ row'[q].uid = row[q].uid
    BY <1>r, <1>t DEF Typed
  <2>2. Located(q)
    BY <2>1 DEF Located
  <2> QED BY <1>a, <1>f, <2>1, <2>2 DEF RowsNameTheirCopy, Fits, Issued
<1>3. PathInv'
  BY <1>a, <1>b, <1>t, <1>f, <1>r DEF NoPath, PathInv, Paid, Used, Typed
<1>4. ReturnInv'
  <2> SUFFICES ASSUME NEW q \in Used PROVE Waits(q)'
    BY <1>f DEF ReturnInv, Used
  <2>1. row'[q].status = row[q].status /\ row'[q].folder = row[q].folder /\ row'[q].uid = row[q].uid
    BY <1>r, <1>t DEF Typed
  <2> QED BY <1>a, <2>1 DEF ReturnInv, Waits, Located
<1>5. JobInv'
  BY <1>f DEF JobInv
<1>6. FlightInv'
  BY <1>a, <1>t, <1>f, <1>r DEF FlightInv, Expunge, Deleting, Returning, Typed
<1>7. CleanInv'
  BY <1>a, <1>t, <1>f, <1>r DEF Needed, Terminal, CleanInv, Expired, Used, Typed
<1>8. OwedInv'
  BY <1>a, <1>t, <1>f, <1>r DEF CleanInv, OwedInv, Issued, Used, Typed
<1>9. OriginInv'
  BY <1>a, <1>t, <1>f, <1>r DEF OriginInv, Returning, Issued, Used, Typed
<1>10. (~ DiskLoses => NeededCopiesKept)'
  BY <1>a, <1>b, <1>t, <1>f, <1>r DEF NeededCopiesKept, Used, Typed
<1>11. ASSUME ~ LateReplies PROVE PromptInv'
  <2>0. PromptInv
    BY <1>b, <1>11
  <2>1. (inflight # {} => pc = "await")'
    BY <2>0, <1>f DEF PromptInv
  <2>2. (\A m \in inflight : m.row = job.row)'
    BY <2>0, <1>f DEF PromptInv
  <2>3. (\A m \in inflight : m.op = "expunge" =>
         row[m.row].path \in files /\ ~ HamVeto(row[m.row].content))'
    BY <2>0, <1>f DEF PromptInv
  <2>4. (pc = "append" \/ (\E m \in inflight : m.op = "append") =>
         \A w \in In("Review") : origin[w] # job.row)'
    BY <2>0, <1>f DEF PromptInv
  <2>5. (\A v, w \in In("Review") : origin[v] = origin[w] /\ origin[v] # 0 => v = w)'
    BY <2>0, <1>f DEF PromptInv, In
  <2> QED BY <2>1, <2>2, <2>3, <2>4, <2>5 DEF PromptInv
<1> QED BY <1>1, <1>2, <1>3, <1>4, <1>5, <1>6, <1>7, <1>8, <1>9, <1>10, <1>11 DEF IInv

LEMMA CleanupEndsKeeps == ASSUME IInv, CleanupEnds PROVE IInv'
<1>a. TypeOK /\ RowsNameTheirCopy /\ PathInv /\ ReturnInv
      /\ JobInv /\ FlightInv /\ CleanInv /\ OwedInv /\ OriginInv
  BY DEF IInv
<1>b. (~ DiskLoses => NeededCopiesKept) /\ (~ LateReplies => PromptInv)
  BY DEF IInv
<1>t. Typed
  BY <1>a, Types
<1>1. TypeOK'
  <2>1. (/\ now \in 0 .. MaxTime
           /\ live \subseteq Issued /\ flagged \subseteq Issued /\ doomed \subseteq Issued
           /\ home \in [Uids -> Folders] /\ body \in [Uids -> Contents]
           /\ nextUid \in 1 .. LastUid + 1)'
    BY <1>a DEF TypeOK, CleanupEnds, Sound, Done, clock, mailbox, Issued
  <2>2. (/\ nextRow \in 1 .. MaxRow + 1 /\ row \in [RowIds -> Row] /\ files \subseteq Paths)'
    BY <1>a DEF TypeOK, CleanupEnds, Sound, Done, clock, journal
  <2>3. (/\ inflight \subseteq [op : {"expunge", "append"}, row : Used, uid : 0 .. LastUid]
           /\ pc \in {"idle", "purge", "refetch", "store", "expunge", "await", "rollback", "mark",
                      "restore", "append", "finalize", "clean", "clear"}
           /\ todo \subseteq Used)'
    BY <1>a DEF TypeOK, CleanupEnds, Sound, Done, clock, mailbox, journal, Used
  <2>4. (/\ job \in [row : 0 .. MaxRow, uid : 0 .. LastUid] /\ path \in Paths \cup {NoPath}
           /\ expunged \in [Uids -> Days \cup {-1}] /\ origin \in [Uids -> 0 .. MaxRow])'
    BY RetentionAssumption, <1>a
      DEF RetentionAssumption, TypeOK, CleanupEnds, Sound, Done, clock, mailbox, journal,
          history, budget, LastUid
  <2>5. (/\ faults \in 0 .. MaxFaults /\ external \in 0 .. MaxExternal)'
    BY <1>a DEF TypeOK, Sound, budget, CleanupEnds
  <2> QED BY <2>1, <2>2, <2>3, <2>4, <2>5 DEF TypeOK
<1>2. RowsNameTheirCopy'
  BY <1>a
    DEF RowsNameTheirCopy, Located, Issued, Used, CleanupEnds, Sound, Done, clock,
        mailbox, journal
<1>3. PathInv'
  BY <1>a DEF PathInv, Paid, Used, NoPath, CleanupEnds, Sound, Done, clock, journal
<1>4. ReturnInv'
  BY <1>a DEF ReturnInv, Waits, Located, Used, CleanupEnds, Sound, Done, clock, journal
<1>5. JobInv'
  BY <1>a DEF CleanupEnds, Sound, Done, clock, mailbox, JobInv
<1>6. FlightInv'
  BY <1>a
    DEF CleanupEnds, Sound, Done, clock, mailbox, journal, history, budget, FlightInv,
        Expunge, Deleting, Returning
<1>7. CleanInv'
  BY <1>a DEF CleanupEnds, Sound, Done, clock, mailbox, journal, CleanInv
<1>8. OwedInv'
  BY <1>a
    DEF OwedInv, Issued, Used, CleanupEnds, Sound, Done, clock, mailbox, journal, history
<1>9. OriginInv'
  BY <1>a
    DEF OriginInv, Returning, Issued, Used, CleanupEnds, Sound, Done, clock, mailbox,
        journal, history
<1>10. (~ DiskLoses => NeededCopiesKept)'
  BY <1>b DEF NeededCopiesKept, Used, CleanupEnds, Sound, Done, clock, journal
<1>11. ASSUME ~ LateReplies PROVE PromptInv'
  <2>0. PromptInv
    BY <1>b, <1>11
  <2>1. (inflight # {} => pc = "await")'
    BY <2>0 DEF CleanupEnds, PromptInv
  <2>2. (\A m \in inflight : m.row = job.row)'
    BY <2>0 DEF CleanupEnds, PromptInv
  <2>3. (\A m \in inflight : m.op = "expunge" =>
         row[m.row].path \in files /\ ~ HamVeto(row[m.row].content))'
    BY <2>0 DEF CleanupEnds, PromptInv
  <2>4. (pc = "append" \/ (\E m \in inflight : m.op = "append") =>
         \A w \in In("Review") : origin[w] # job.row)'
    BY <2>0, <1>a DEF CleanupEnds, Sound, Done, clock, mailbox, journal, PromptInv
  <2>5. (\A v, w \in In("Review") : origin[v] = origin[w] /\ origin[v] # 0 => v = w)'
    BY <2>0 DEF CleanupEnds, Sound, Done, clock, mailbox, journal, history, PromptInv, In
  <2> QED BY <2>1, <2>2, <2>3, <2>4, <2>5 DEF PromptInv
<1> QED BY <1>1, <1>2, <1>3, <1>4, <1>5, <1>6, <1>7, <1>8, <1>9, <1>10, <1>11 DEF IInv

LEMMA CutShortKeeps == ASSUME IInv, CutShort PROVE IInv'
<1>a. TypeOK /\ RowsNameTheirCopy /\ PathInv /\ ReturnInv
      /\ JobInv /\ FlightInv /\ CleanInv /\ OwedInv /\ OriginInv
  BY DEF IInv
<1>b. (~ DiskLoses => NeededCopiesKept) /\ (~ LateReplies => PromptInv)
  BY DEF IInv
<1>t. Typed
  BY <1>a, Types
<1>f. /\ UNCHANGED <<now, live, home, body, flagged, doomed, nextUid, row, nextRow,
                   expunged, origin, files>>
      /\ pc' = "idle" /\ todo' = {} /\ job' = [row |-> 0, uid |-> 0]
      /\ LateReplies \/ inflight' = {}
      /\ inflight' \subseteq inflight
  BY DEF CutShort, Fault, Done, clock, mailbox, journal, history
<1>1. TypeOK'
  <2>1. (/\ now \in 0 .. MaxTime
           /\ live \subseteq Issued /\ flagged \subseteq Issued /\ doomed \subseteq Issued
           /\ home \in [Uids -> Folders] /\ body \in [Uids -> Contents]
           /\ nextUid \in 1 .. LastUid + 1)'
    BY <1>a DEF TypeOK, CutShort, Fault, Done, clock, mailbox, Issued
  <2>2. (/\ nextRow \in 1 .. MaxRow + 1 /\ row \in [RowIds -> Row] /\ files \subseteq Paths)'
    BY <1>a DEF TypeOK, CutShort, Fault, Done, journal
  <2>3. (/\ inflight \subseteq [op : {"expunge", "append"}, row : Used, uid : 0 .. LastUid]
           /\ pc \in {"idle", "purge", "refetch", "store", "expunge", "await", "rollback", "mark",
                      "restore", "append", "finalize", "clean", "clear"}
           /\ todo \subseteq Used)'
    BY <1>a, <1>f DEF TypeOK, Used
  <2>4. (/\ job \in [row : 0 .. MaxRow, uid : 0 .. LastUid] /\ path \in Paths \cup {NoPath}
           /\ expunged \in [Uids -> Days \cup {-1}] /\ origin \in [Uids -> 0 .. MaxRow])'
    BY RetentionAssumption, <1>a
      DEF RetentionAssumption, TypeOK, CutShort, Fault, Done, Idle, clock, mailbox,
          journal, history, LastUid
  <2>5. (/\ faults \in 0 .. MaxFaults /\ external \in 0 .. MaxExternal)'
    BY RetentionAssumption, <1>a DEF TypeOK, Fault, CutShort
  <2> QED BY <2>1, <2>2, <2>3, <2>4, <2>5 DEF TypeOK
<1>2. RowsNameTheirCopy'
  BY <1>a, <1>f DEF RowsNameTheirCopy, Located, Issued, Used
<1>3. PathInv'
  BY <1>a, <1>f DEF PathInv, Paid, Used
<1>4. ReturnInv'
  BY <1>a, <1>f DEF ReturnInv, Waits, Located, Used
<1>5. JobInv'
  BY <1>f DEF JobInv
<1>6. FlightInv'
  BY <1>a, <1>f DEF FlightInv, Expunge, Deleting, Returning
<1>7. CleanInv'
  BY <1>f DEF CleanInv
<1>8. OwedInv'
  BY <1>a, <1>f DEF OwedInv, Issued, Used
<1>9. OriginInv'
  BY <1>a, <1>f DEF OriginInv, Returning, Issued, Used
<1>10. (~ DiskLoses => NeededCopiesKept)'
  BY <1>b, <1>f DEF NeededCopiesKept, Used
<1>11. ASSUME ~ LateReplies PROVE PromptInv'
  <2>0. PromptInv
    BY <1>b, <1>11
  <2>1. inflight' = {}
    BY <1>11, <1>f
  <2>2. (\A v, w \in In("Review") : origin[v] = origin[w] /\ origin[v] # 0 => v = w)'
    BY <1>f, <2>0 DEF PromptInv, In
  <2> QED BY <1>f, <2>1, <2>2 DEF PromptInv
<1> QED BY <1>1, <1>2, <1>3, <1>4, <1>5, <1>6, <1>7, <1>8, <1>9, <1>10, <1>11 DEF IInv

-----------------------------------------------------------------------------
LEMMA InitInv == ASSUME Init PROVE IInv
<1>1. TypeOK
  <2>1. /\ 0 \in 0 .. MaxTime /\ 0 \in 0 .. LastUid /\ 0 \in Days /\ 1 \in 1 .. LastUid + 1
        /\ 1 \in 1 .. MaxRow + 1 /\ 0 \in 0 .. MaxRow /\ 0 \in 0 .. MaxFaults /\ 0 \in 0 .. MaxExternal
    BY RetentionAssumption DEF LastUid, Days
  <2>2. "Elsewhere" \in Folders /\ "none" \in Statuses
    BY DEF Folders, Statuses
  <2>3. row \in [RowIds -> Row]
    <3>1. PICK c \in Contents :
            row = [r \in RowIds |-> [content |-> c, folder |-> "", uid |-> 0, status |-> "none",
                     veto |-> FALSE, since |-> 0, until |-> 0, path |-> NoPath]]
      BY DEF Init
    <3>2. [content |-> c, folder |-> "", uid |-> 0, status |-> "none", veto |-> FALSE,
           since |-> 0, until |-> 0, path |-> NoPath] \in Row
      BY <2>1, <2>2 DEF Row
    <3> QED BY <3>1, <3>2
  <2>4. body \in [Uids -> Contents]
    BY DEF Init
  <2>5. job \in [row : 0 .. MaxRow, uid : 0 .. LastUid]
    BY <2>1 DEF Init
  <2> QED BY <2>1, <2>2, <2>3, <2>4, <2>5 DEF Init, TypeOK
<1>2. Used = {} /\ todo = {} /\ inflight = {} /\ pc = "idle" /\ live = {}
  <2>1. nextRow = 1
    BY DEF Init
  <2>2. Used = {}
    BY <2>1 DEF Used
  <2> QED BY <2>2 DEF Init
<1>3. \A u \in Uids : expunged[u] = -1 /\ origin[u] = 0
  BY DEF Init
<1>4. RowsNameTheirCopy /\ PathInv /\ ReturnInv /\ NeededCopiesKept
  BY <1>2 DEF RowsNameTheirCopy, PathInv, ReturnInv, NeededCopiesKept
<1>5. JobInv /\ FlightInv /\ CleanInv
  BY <1>2 DEF JobInv, FlightInv, CleanInv
<1>6. OwedInv /\ OriginInv
  BY <1>3 DEF OwedInv, OriginInv
<1>7. PromptInv
  BY <1>2 DEF PromptInv, In
<1> QED BY <1>1, <1>4, <1>5, <1>6, <1>7 DEF IInv

LEMMA StepsKeep == ASSUME IInv, [Next]_vars PROVE IInv'
<1>1. CASE Tick
  BY <1>1, TickKeeps
<1>2. CASE Owner
  <2>1. PICK u \in Uids :
          \/ \E folder \in Folders : OwnerMoves(u, folder)
          \/ OwnerCopiesToTraining(u) \/ OwnerFlags(u) \/ OwnerDeletes(u) \/ OthersExpunge(u)
    BY <1>2 DEF Owner
  <2> QED BY <2>1, OwnerMovesKeeps, OwnerCopiesToTrainingKeeps, OwnerFlagsKeeps,
             OwnerDeletesKeeps
    DEF OthersExpunge
<1>3. CASE Run
  BY <1>3, RunMovesKeeps, RunCorrectsKeeps, RunFailsToLearnKeeps DEF Run
<1>4. CASE Purge
  BY <1>4, PurgeStartKeeps, PurgeEndsKeeps, PurgeLooksAgainKeeps, StoreDeletedKeeps,
     SendExpungeKeeps, RollBackKeeps, MarkPurgedKeeps, PurgeVetsKeeps, PurgeSkipsKeeps
    DEF Purge
<1>5. CASE Restore
  BY <1>5, MarkRestorePendingKeeps, SendAppendKeeps, FinalizeRestoreKeeps,
     AppendUnconfirmedKeeps, OwnerRestoresKeeps, RunRestoresKeeps, RestoreRefusedKeeps,
     RestoreReconciledKeeps
    DEF Restore
<1>6. CASE Cleanup
  BY <1>6, CleanupStartKeeps, DeleteFileKeeps, ClearArchivePathKeeps, CleanupEndsKeeps
    DEF Cleanup
<1>7. CASE Server
  BY <1>7, ServerExpungesKeeps, ServerRefusesExpungeKeeps, ServerAppendsKeeps,
     ServerRefusesAppendKeeps
    DEF Server
<1>8. CASE Trouble
  BY <1>8, CutShortKeeps, ArchiveLostKeeps DEF Trouble
<1>9. CASE UNCHANGED vars
  <2>1. UNCHANGED <<now, live, home, body, flagged, doomed, nextUid, inflight, row, nextRow, files,
                    pc, todo, job, path, expunged, origin, faults, external>>
    BY <1>9 DEF vars, clock, mailbox, journal, engine, history, budget
  <2>2. TypeOK'
    BY <2>1 DEF IInv, TypeOK, Used, Issued
  <2>3. (RowsNameTheirCopy /\ PathInv /\ ReturnInv)'
    BY <2>1
      DEF IInv, RowsNameTheirCopy, Located, PathInv, Paid, ReturnInv, Waits, Used, Issued
  <2>4. JobInv'
    BY <2>1 DEF IInv, JobInv, HamVeto, Expunge, Used, Issued
  <2>5. (FlightInv /\ CleanInv)'
    BY <2>1
      DEF IInv, FlightInv, Expunge, Append, Deleting, Returning, CleanInv, Expired, Used
  <2>6. (OwedInv /\ OriginInv)'
    BY <2>1 DEF IInv, OwedInv, OriginInv, Returning, Used, Issued
  <2>7. (~ DiskLoses => NeededCopiesKept)' /\ (~ LateReplies => PromptInv)'
    BY <2>1 DEF IInv, NeededCopiesKept, PromptInv, In, HamVeto, Used
  <2> QED BY <2>2, <2>3, <2>4, <2>5, <2>6, <2>7 DEF IInv
<1> QED BY <1>1, <1>2, <1>3, <1>4, <1>5, <1>6, <1>7, <1>8, <1>9 DEF Next

(* The journal, the archive and the commands in flight keep to IInv whatever
   the owner, the server, a crash or the disk do. *)
THEOREM Inductive == Spec => []IInv
<1>1. Init => IInv
  BY InitInv
<1>2. IInv /\ [Next]_vars => IInv'
  BY StepsKeep
<1> QED BY <1>1, <1>2, PTL DEF Spec

(* Every state of a purge, a restore and a clean-up is of its type. *)
THEOREM RetentionTypeCorrect == Spec => []TypeOK
<1>1. IInv => TypeOK
  BY DEF IInv
<1> QED BY <1>1, Inductive, PTL

(* Engine.Purge deletes at the location a row names: it is the row's message,
   whatever became of an earlier command. *)
THEOREM LocationsAreRight == Spec => []RowsNameTheirCopy
<1>1. IInv => RowsNameTheirCopy
  BY DEF IInv
<1> QED BY <1>1, Inductive, PTL

(* As long as the disk loses nothing, what a row may have to give back has its
   encrypted copy: the clean-up of CleanupExpiredArchives never takes it. *)
THEOREM CopiesAreKept == ASSUME ~ DiskLoses PROVE Spec => []NeededCopiesKept
<1>1. IInv => NeededCopiesKept
  BY DEF IInv
<1> QED BY <1>1, Inductive, PTL

LEMMA OwedIsThere == ASSUME IInv, NeededCopiesKept PROVE DeletedStayRecoverable
<1> SUFFICES ASSUME NEW u \in Uids, now < expunged[u]
             PROVE  \E p \in files : p[1] = body[u]
  BY DEF DeletedStayRecoverable
<1>t. Typed
  BY Types DEF IInv
<1>1. expunged[u] # -1
  BY <1>t DEF Typed
<1>2. PICK r \in Used : row[r].content = body[u] /\ expunged[u] <= row[r].until
  BY <1>1 DEF IInv, OwedInv
<1>3. now < row[r].until /\ row[r].until # 0
  BY <1>2, <1>t DEF Typed
<1>4. row[r].path # NoPath /\ row[r].path[1] = row[r].content
  BY <1>3 DEF IInv, PathInv, Paid
<1>5. row[r].path \in files
  BY <1>3, <1>4 DEF NeededCopiesKept
<1> QED BY <1>2, <1>4, <1>5

(* Until the date its row was given, a message Engine.Purge deleted for good can
   be had back from an encrypted copy, as long as the disk loses nothing. *)
THEOREM DeletedMessagesCanBeHad == ASSUME ~ DiskLoses PROVE Spec => []DeletedStayRecoverable
<1>1. IInv => DeletedStayRecoverable
  BY OwedIsThere DEF IInv
<1> QED BY <1>1, Inductive, PTL

(* With a server that answers in time Engine.Restore puts one copy into the
   review folder, however often it is cut short and taken up again. *)
THEOREM OneCopyComesBack == ASSUME ~ LateReplies PROVE Spec => []OneCopyPerRestore
<1>1. IInv => OneCopyPerRestore
  <2> SUFFICES ASSUME IInv, NEW r \in RowIds
               PROVE  Cardinality({u \in In("Review") : origin[u] = r}) <= 1
    BY DEF OneCopyPerRestore
  <2>1. \A u, v \in In("Review") : origin[u] = r /\ origin[v] = r => u = v
    BY DEF IInv, PromptInv, RowIds
  <2>2. CASE {u \in In("Review") : origin[u] = r} = {}
    BY <2>2, FS_EmptySet
  <2>3. CASE {u \in In("Review") : origin[u] = r} # {}
    <3>1. PICK u \in In("Review") : origin[u] = r
      BY <2>3
    <3>2. {v \in In("Review") : origin[v] = r} = {u}
      BY <2>1, <3>1
    <3>3. Cardinality({u}) = 1
      BY FS_Singleton
    <3> QED BY <3>2, <3>3
  <2> QED BY <2>2, <2>3
<1> QED BY <1>1, Inductive, PTL

LEMMA ExpungeIsPermitted ==
  ASSUME IInv, ~ LateReplies, NEW m \in inflight, ServerExpunges(m), NEW u \in Uids, Deletes(u)
  PROVE  (\E p \in files : p[1] = body[u]) /\ ~ HamVeto(body[u])
<1>t. Typed
  BY Types DEF IInv
<1>1. u = m.uid /\ m.op = "expunge" /\ m.row \in Used
  BY <1>t DEF ServerExpunges, Deletes, Typed
<1>2. m # Append(m.row)
  BY <1>1 DEF Append
<1>3. m = Expunge(m.row) /\ Deleting(m.row) /\ m.uid # 0
  BY <1>2 DEF IInv, FlightInv
<1>4. m.uid = row[m.row].uid
  BY <1>3 DEF Expunge
<1>5. Located(m.row)
  BY <1>3, <1>4 DEF Located, Deleting
<1>6. body[u] = row[m.row].content
  BY <1>1, <1>4, <1>5 DEF IInv, RowsNameTheirCopy
<1>7. row[m.row].path \in files /\ ~ HamVeto(row[m.row].content)
  BY <1>1 DEF IInv, PromptInv
<1>8. row[m.row].path[1] = row[m.row].content
  BY <1>1, <1>7, <1>t DEF IInv, PathInv, Paid, Typed
<1> QED BY <1>6, <1>7, <1>8

(* With a server that answers in time no message is deleted for good without an
   encrypted copy or against the owner's correction, although the checks of
   Engine.Purge lie several steps before the EXPUNGE. *)
THEOREM PurgeIsPermitted == ASSUME ~ LateReplies PROVE Spec => DeletionsArePermitted
<1> DEFINE Permitted ==
      \A u \in Uids : Deletes(u) => (\E p \in files : p[1] = body[u]) /\ ~ HamVeto(body[u])
<1>1. IInv /\ [Next]_vars => Permitted
  <2> SUFFICES ASSUME IInv, [Next]_vars, NEW u \in Uids, Deletes(u)
               PROVE  (\E p \in files : p[1] = body[u]) /\ ~ HamVeto(body[u])
    OBVIOUS
  <2>1. ASSUME UNCHANGED expunged PROVE FALSE
    BY <2>1 DEF Deletes
  <2>2. \E m \in inflight : ServerExpunges(m)
    <3>1. CASE Owner \/ Run
      BY <2>1, <3>1
        DEF Owner, Run, OwnerMoves, OwnerCopiesToTraining, OwnerFlags, OwnerDeletes,
            OthersExpunge, RunMoves, RunCorrects, RunFailsToLearn, history
    <3>2. CASE Tick \/ Purge \/ Trouble
      BY <2>1, <3>2
        DEF Tick, Purge, Trouble, PurgeStart, PurgeEnds, PurgeLooksAgain, StoreDeleted,
            SendExpunge, RollBack, MarkPurged, PurgeVets, PurgeSkips, CutShort,
            ArchiveLost, history
    <3>3. CASE Restore \/ Cleanup
      BY <2>1, <3>3
        DEF Restore, Cleanup, MarkRestorePending, SendAppend, FinalizeRestore,
            AppendUnconfirmed, OwnerRestores, RunRestores, RestoreStart, RestoreRefused,
            RestoreReconciled, CleanupStart, DeleteFile, ClearArchivePath, CleanupEnds,
            history
    <3>4. CASE Server
      BY <2>1, <3>4
        DEF Server, ServerRefusesExpunge, ServerAppends, ServerRefusesAppend, history
    <3>5. CASE UNCHANGED vars
      BY <2>1, <3>5 DEF vars, history
    <3> QED BY <3>1, <3>2, <3>3, <3>4, <3>5 DEF Next
  <2> QED BY <2>2, ExpungeIsPermitted
<1>2. [][Permitted]_vars => DeletionsArePermitted
  BY PTL DEF DeletionsArePermitted
<1> QED BY <1>1, <1>2, Inductive, PTL DEF Spec
=============================================================================
