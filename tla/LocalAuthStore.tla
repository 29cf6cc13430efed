--------------------------- MODULE LocalAuthStore ---------------------------
(***************************************************************************)
(* The file of local MCP credentials (internal/localauth/store.go): runs   *)
(* of the ableops-mcp-auth command that enroll and revoke clients, while a *)
(* server reads the file again for every request.                          *)
(*                                                                         *)
(* A command may be killed between any two of its steps.  The files are    *)
(* all that commands and the server share: the store, its .lock, and the   *)
(* output files that hold the raw tokens.  Temporary files have random     *)
(* names, so one that a killed command leaves behind is never read.        *)
(***************************************************************************)
EXTENDS Naturals, FiniteSets

CONSTANTS
    Commands,       \* processes of ableops-mcp-auth
    Readers,        \* requests the server authenticates
    Clients, Users,
    Sessions,       \* backend sessions (the BackendToken of an entry)
    Tokens,         \* MCP tokens; an entry holds the hash of one
    Outputs,        \* paths given as -token-output
    MaxEntries,
    None

ASSUME StoreAssumption ==
    /\ MaxEntries \in Nat
    /\ None \notin Clients \cup Users \cup Sessions \cup Tokens \cup Outputs \cup Commands

(* backend is None in a revoked entry: Revoke clears it. *)
Entries == [client : Clients, user : Users, token : Tokens, backend : Sessions \cup {None}]
Docs == SUBSET Entries

VARIABLES
    exists,     \* there is a file at path
    store,      \* its document, {} when there is none
    lock,       \* path.lock exists: the command that created it
    out,        \* out[o]: the token in the file at output path o
    owner,      \* external: owner[s], the user the backend reports for s if it does
    cmd,        \* cmd[p]
    req,        \* req[r]
    published,  \* history: tokens that were ever in the store
    orphans,    \* history: tokens that killed commands did not get into the store
    stale       \* history: the lock was left behind by a killed command

files == <<exists, store, lock, out>>
history == <<published, orphans, stale>>
vars == <<exists, store, lock, out, owner, cmd, req, history>>

Idle == [pc |-> "idle", kind |-> None, client |-> None, user |-> None, backend |-> None,
         output |-> None, token |-> None, doc |-> {}]

(* Where a command is: before verify; before lockStore; before the checks of *)
(* the document; before the output file; before and after the temporary file *)
(* of writeDocument; at the deferred removal of the output; at unlock.       *)
Locked == {"read", "output", "temp", "rename", "undo", "unlock"}
PCs == {"idle", "verify", "lock"} \cup Locked

Quiet == [pc |-> "idle", token |-> None, same |-> TRUE, entry |-> None, late |-> FALSE]

TypeOK ==
    /\ exists \in BOOLEAN
    /\ store \in Docs
    /\ lock \in Commands \cup {None}
    /\ out \in [Outputs -> Tokens \cup {None}]
    /\ owner \in [Sessions -> Users]
    /\ cmd \in [Commands -> [pc : PCs, kind : {"enroll", "revoke", None},
                             client : Clients \cup {None}, user : Users \cup {None},
                             backend : Sessions \cup {None}, output : Outputs \cup {None},
                             token : Tokens \cup {None}, doc : Docs]]
    /\ req \in [Readers -> [pc : {"idle", "stat", "verify", "accepted"}, token : Tokens \cup {None},
                            same : BOOLEAN, entry : Entries \cup {None}, late : BOOLEAN]]
    /\ published \subseteq Tokens /\ orphans \subseteq Tokens /\ stale \in BOOLEAN

Init ==
    /\ exists \in BOOLEAN           \* no file yet, or the empty example document
    /\ store = {}
    /\ lock = None
    /\ out = [o \in Outputs |-> None]
    /\ owner \in [Sessions -> Users]
    /\ cmd = [p \in Commands |-> Idle]
    /\ req = [r \in Readers |-> Quiet]
    /\ published = {} /\ orphans = {} /\ stale = FALSE

-----------------------------------------------------------------------------
(* Documents *)

Active(doc) == {e \in doc : e.backend # None}

(* validateDocument: its size, tokens and clients without duplicates, and *)
(* one user for each backend session.                                     *)
Valid(doc) ==
    /\ Cardinality(doc) <= MaxEntries
    /\ \A d, e \in doc :
         /\ d.token = e.token \/ d.client = e.client => d = e
         /\ d.backend = e.backend /\ d.backend # None => d.user = e.user

(* Mutated form: the earlier entry stays. *)
WithEntryAppended(doc, entry) == doc \cup {entry}

(* The document that Enroll writes: an earlier, revoked entry of the client *)
(* is replaced.                                                             *)
WithEntry(doc, entry) == {e \in doc : e.client # entry.client} \cup {entry}

WithoutBackend(doc, c) == {IF e.client = c THEN [e EXCEPT !.backend = None] ELSE e : e \in doc}

-----------------------------------------------------------------------------
(* Commands *)

At(p, pc) == cmd[p].pc = pc
Goto(p, pc) == cmd' = [cmd EXCEPT ![p].pc = pc]
Return(p) == cmd' = [cmd EXCEPT ![p] = Idle]

(* Enroll verifies the backend session before it takes the lock. *)
BeginEnroll(p, c, s, o) ==
    /\ At(p, "idle")
    /\ cmd' = [cmd EXCEPT ![p] = [Idle EXCEPT !.pc = "verify", !.kind = "enroll", !.client = c,
                                              !.backend = s, !.output = o]]
    /\ UNCHANGED <<files, owner, req, history>>

Verified(p) ==
    /\ At(p, "verify")
    /\ \/ cmd' = [cmd EXCEPT ![p].pc = "lock", ![p].user = owner[cmd[p].backend]]
       \/ Return(p)                       \* the session is over, or the backend out of reach
    /\ UNCHANGED <<files, owner, req, history>>

BeginRevoke(p, c) ==
    /\ At(p, "idle")
    /\ cmd' = [cmd EXCEPT ![p] = [Idle EXCEPT !.pc = "lock", !.kind = "revoke", !.client = c]]
    /\ UNCHANGED <<files, owner, req, history>>

(* Mutated form: the lock file is opened without O_EXCL. *)
LockShared(p) ==
    /\ At(p, "lock")
    /\ lock' = p /\ Goto(p, "read")
    /\ UNCHANGED <<exists, store, out, owner, req, history>>

(* lockStore creates the lock file or fails; it does not wait. *)
Lock(p) ==
    /\ At(p, "lock")
    /\ \/ lock = None /\ lock' = p /\ Goto(p, "read")
       \/ lock # None /\ Return(p) /\ UNCHANGED lock
    /\ UNCHANGED <<exists, store, out, owner, req, history>>

(* Enroll reads the document, refuses a client that is registered, draws a  *)
(* token and checks the new document.  Reading may fail.                    *)
ReadForEnroll(p) ==
    /\ At(p, "read") /\ cmd[p].kind = "enroll"
    /\ \/ Goto(p, "unlock")
       \/ \E t \in Tokens \ (published \cup orphans \cup {cmd[q].token : q \in Commands}) :
            LET new == WithEntry(store, [client |-> cmd[p].client, user |-> cmd[p].user, token |-> t,
                                         backend |-> cmd[p].backend])
            IN /\ \A e \in Active(store) : e.client # cmd[p].client
               /\ Valid(new)
               /\ cmd' = [cmd EXCEPT ![p].pc = "output", ![p].token = t, ![p].doc = new]
    /\ UNCHANGED <<files, owner, req, history>>

ReadForRevoke(p) ==
    /\ At(p, "read") /\ cmd[p].kind = "revoke"
    /\ \/ Goto(p, "unlock")
       \/ /\ \E e \in store : e.client = cmd[p].client
          /\ cmd' = [cmd EXCEPT ![p].pc = "temp", ![p].doc = WithoutBackend(store, cmd[p].client)]
    /\ UNCHANGED <<files, owner, req, history>>

(* Mutated form: a failure to create the output also removes it. *)
CreateOutputUndoing(p) ==
    /\ At(p, "output")
    /\ LET o == cmd[p].output IN
       \/ out[o] = None /\ out' = [out EXCEPT ![o] = cmd[p].token] /\ Goto(p, "temp")
       \/ Goto(p, "undo") /\ UNCHANGED out
    /\ UNCHANGED <<exists, store, lock, owner, req, history>>

(* The output file is created with O_EXCL and written; when only the write *)
(* fails the file is removed again.                                        *)
CreateOutput(p) ==
    /\ At(p, "output")
    /\ LET o == cmd[p].output IN
       \/ out[o] = None /\ out' = [out EXCEPT ![o] = cmd[p].token] /\ \E pc \in {"temp", "undo"} : Goto(p, pc)
       \/ Goto(p, "unlock") /\ UNCHANGED out
    /\ UNCHANGED <<exists, store, lock, owner, req, history>>

(* What ends writeDocument early: Enroll then removes its output file. *)
WriteFailed(p) == Goto(p, IF cmd[p].kind = "enroll" THEN "undo" ELSE "unlock")

(* The temporary file, which nobody else looks at, is created, written, *)
(* synced and closed.                                                   *)
WriteTemp(p) ==
    /\ At(p, "temp")
    /\ Goto(p, "rename") \/ WriteFailed(p)
    /\ UNCHANGED <<files, owner, req, history>>

(* The rename replaces the document at once: a reader that looked at the *)
(* old file with Lstat finds that path now names another one.            *)
Rename(p) ==
    /\ At(p, "rename")
    /\ \/ /\ exists' = TRUE /\ store' = cmd[p].doc
          /\ req' = [r \in Readers |-> IF req[r].pc = "stat" THEN [req[r] EXCEPT !.same = FALSE] ELSE req[r]]
          /\ published' = published \cup {e.token : e \in cmd[p].doc}
          /\ Goto(p, "unlock")
       \/ WriteFailed(p) /\ UNCHANGED <<exists, store, req, published>>
    /\ UNCHANGED <<lock, out, owner, orphans, stale>>

Undo(p) ==
    /\ At(p, "undo")
    /\ out' = [out EXCEPT ![cmd[p].output] = None]
    /\ Goto(p, "unlock")
    /\ UNCHANGED <<exists, store, lock, owner, req, history>>

Unlock(p) ==
    /\ At(p, "unlock")
    /\ lock' = None
    /\ Return(p)
    /\ UNCHANGED <<exists, store, out, owner, req, history>>

(* The command is killed, or its machine stops: no deferred call runs. *)
Crash(p) ==
    /\ ~At(p, "idle")
    /\ stale' = (stale \/ cmd[p].pc \in Locked)
    /\ orphans' = orphans \cup ({cmd[p].token} \ (published \cup {None}))
    /\ Return(p)
    /\ UNCHANGED <<files, owner, req, published>>

Command(p) ==
    \/ \E c \in Clients : BeginRevoke(p, c) \/ \E s \in Sessions, o \in Outputs : BeginEnroll(p, c, s, o)
    \/ Verified(p) \/ Lock(p) \/ ReadForEnroll(p) \/ ReadForRevoke(p) \/ CreateOutput(p)
    \/ WriteTemp(p) \/ Rename(p) \/ Undo(p) \/ Unlock(p) \/ Crash(p)

-----------------------------------------------------------------------------
(* The administrator, as docs/deployment.md asks: the lock of a command that *)
(* ended abnormally is removed when no command runs, and so is an output     *)
(* file whose token is not in use.                                           *)

NoneRuns == \A p \in Commands : At(p, "idle")

ClearLock ==
    /\ NoneRuns /\ lock # None
    /\ lock' = None /\ stale' = FALSE
    /\ UNCHANGED <<exists, store, out, owner, cmd, req, published, orphans>>

Discard(o) ==
    /\ NoneRuns /\ out[o] # None
    /\ \A e \in Active(store) : e.token # out[o]
    /\ out' = [out EXCEPT ![o] = None]
    /\ UNCHANGED <<exists, store, lock, owner, cmd, req, history>>

(* External: a session token starts to name someone else.  A session that is *)
(* over answers like a backend that cannot be asked, which it never need be. *)
SessionChanges(s, u) ==
    /\ owner[s] # u
    /\ owner' = [owner EXCEPT ![s] = u]
    /\ UNCHANGED <<files, cmd, req, history>>

-----------------------------------------------------------------------------
(* The server *)

Revoked(t) == t \in published /\ \A e \in Active(store) : e.token # t

(* A request with a well-formed token; openPrivate starts with Lstat. *)
Arrive(r, t) ==
    /\ req[r].pc = "idle" /\ exists
    /\ req' = [req EXCEPT ![r] = [Quiet EXCEPT !.pc = "stat", !.token = t, !.late = Revoked(t)]]
    /\ UNCHANGED <<files, owner, cmd, history>>

(* The entry a token matches, when it is not revoked. *)
Matched(r) == {e \in Active(store) : e.token = req[r].token}

Refuse(r) == req' = [req EXCEPT ![r] = Quiet]

(* The file is opened, is still the one Lstat saw, and is read; from here   *)
(* on the request has its entry.  It is refused when there is no such entry, *)
(* when the file changed, on a read error and when the token has expired.    *)
Open(r) ==
    /\ req[r].pc = "stat"
    /\ \/ /\ req[r].same
          /\ \E e \in Matched(r) : req' = [req EXCEPT ![r].pc = "verify", ![r].entry = e]
       \/ Refuse(r)
    /\ UNCHANGED <<files, owner, cmd, history>>

(* The backend confirms that the session is that of the enrolled user. *)
BackendReply(r) ==
    /\ req[r].pc = "verify"
    /\ \/ /\ owner[req[r].entry.backend] = req[r].entry.user
          /\ req' = [req EXCEPT ![r].pc = "accepted"]
       \/ Refuse(r)
    /\ UNCHANGED <<files, owner, cmd, history>>

(* Mutated form: the next request of the connection reuses the entry. *)
AnsweredReusing(r) ==
    /\ req[r].pc = "accepted"
    /\ req' = [req EXCEPT ![r].pc = "verify", ![r].late = Revoked(req[r].token)]
    /\ UNCHANGED <<files, owner, cmd, history>>

Answered(r) ==
    /\ req[r].pc = "accepted"
    /\ Refuse(r)
    /\ UNCHANGED <<files, owner, cmd, history>>

Reader(r) == (\E t \in Tokens : Arrive(r, t)) \/ Open(r) \/ BackendReply(r) \/ Answered(r)

Next ==
    \/ \E p \in Commands : Command(p)
    \/ ClearLock
    \/ \E o \in Outputs : Discard(o)
    \/ \E s \in Sessions, u \in Users : SessionChanges(s, u)
    \/ \E r \in Readers : Reader(r)

Spec == Init /\ [][Next]_vars

-----------------------------------------------------------------------------
(* Properties *)

(* Revoked entries stay in the document and count towards maxEntries, so a   *)
(* full store takes no new client; but it never locks in the clients it has: *)
(* whoever is in force can be revoked, and whoever is revoked can be         *)
(* enrolled again, for any session whose user the document does not dispute. *)
FullStoreServes ==
    \A e \in store :
      IF e \in Active(store)
      THEN Valid(WithoutBackend(store, e.client))
      ELSE \A s \in Sessions, u \in Users :
             (\A d \in Active(store) : d.backend = s => d.user = u) =>
               Valid(WithEntry(store, [client |-> e.client, user |-> u, token |-> None, backend |-> s]))

(* Whatever commands run together and wherever they are killed, the document *)
(* at path is one that readDocument accepts: an invalid one would refuse     *)
(* every client, and every command that could repair it, and a full one      *)
(* leaves its clients a way on.  (With it, the type invariant.)              *)
StoreReadable == TypeOK /\ Valid(store) /\ FullStoreServes

(* Commands clean up after themselves on every path.  The raw token of every *)
(* credential in force is in an output file, and an output file holds a      *)
(* token that was enrolled, is being enrolled, or whose command was killed:  *)
(* a failed enrollment leaves no file, and never removes that of another     *)
(* one.  The lock file exists exactly while a command is between lockStore   *)
(* and its unlock, or because one was killed there.                          *)
FilesAccounted ==
    /\ \A p \in Commands : cmd[p].pc \in Locked => lock = p
    /\ lock # None => stale \/ cmd[lock].pc \in Locked
    /\ \A e \in Active(store) : \E o \in Outputs : out[o] = e.token
    /\ \A o \in Outputs : out[o] # None =>
         \/ out[o] \in published \cup orphans
         \/ \E p \in Commands : cmd[p].output = o /\ cmd[p].token = out[o]

(* A revocation holds from the next request on, although the server keeps    *)
(* running and other commands rewrite the file at the same time.             *)
RevocationHolds == \A r \in Readers : req[r].pc = "accepted" => ~req[r].late

ActiveToken(c) ==
    IF \E e \in Active(store) : e.client = c
    THEN (CHOOSE e \in Active(store) : e.client = c).token
    ELSE None

Registry == INSTANCE CredentialRegistry WITH active <- [c \in Clients |-> ActiveToken(c)], used <- published

(* Commands that interleave, fail half-way or are killed change the store as *)
(* whole enrollments and revocations one after the other, or not at all: no  *)
(* command undoes another one, and no revoked token comes back.              *)
ImplementsRegistry == Registry!Spec
=============================================================================
