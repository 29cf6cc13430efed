------------------------ MODULE LocalAuthStore_proofs ------------------------
(* Proofs about LocalAuthStore, for every value of its constants. *)
EXTENDS LocalAuthStore, TLAPS, FiniteSetTheorems

(* The actions, for case splits. *)
LEMMA NextCases ==
    ASSUME Next
    PROVE  \/ \E p \in Commands : \E c \in Clients, s \in Sessions, o \in Outputs : BeginEnroll(p, c, s, o)
           \/ \E p \in Commands : \E c \in Clients : BeginRevoke(p, c)
           \/ \E p \in Commands : Verified(p)
           \/ \E p \in Commands : Lock(p)
           \/ \E p \in Commands : ReadForEnroll(p)
           \/ \E p \in Commands : ReadForRevoke(p)
           \/ \E p \in Commands : CreateOutput(p)
           \/ \E p \in Commands : WriteTemp(p)
           \/ \E p \in Commands : Rename(p)
           \/ \E p \in Commands : Undo(p)
           \/ \E p \in Commands : Unlock(p)
           \/ \E p \in Commands : Crash(p)
           \/ ClearLock
           \/ \E o \in Outputs : Discard(o)
           \/ \E s \in Sessions, u \in Users : SessionChanges(s, u)
           \/ \E r \in Readers : Reader(r)
  BY DEF Next, Command

-----------------------------------------------------------------------------
(* The inductive invariant *)

Runs == [pc : PCs, kind : {"enroll", "revoke", None},
         client : Clients \cup {None}, user : Users \cup {None},
         backend : Sessions \cup {None}, output : Outputs \cup {None},
         token : Tokens \cup {None}, doc : Docs]

Requests == [pc : {"idle", "stat", "verify", "accepted"}, token : Tokens \cup {None},
             same : BOOLEAN, entry : Entries \cup {None}, late : BOOLEAN]

(* A command that has drawn a token it did not publish yet. *)
Enrolling(c) == c.pc \in {"output", "temp", "rename", "undo"} /\ c.kind = "enroll"

(* The entry an enrollment adds. *)
NewEntry(c) == [client |-> c.client, user |-> c.user, token |-> c.token, backend |-> c.backend]

(* What a command holds at each of its points: the entry that Enroll builds *)
(* has the user of a backend session, and only Enroll draws a token.        *)
GoodCommand(c) ==
    /\ c.pc # "idle" => c.kind \in {"enroll", "revoke"} /\ c.client \in Clients
    /\ c.pc # "idle" /\ c.kind = "enroll" => c.backend \in Sessions /\ c.output \in Outputs
    /\ c.pc \notin {"idle", "verify"} /\ c.kind = "enroll" => c.user \in Users
    /\ c.pc \in {"verify", "output", "undo"} => c.kind = "enroll"
    /\ c.pc \in {"idle", "verify", "lock", "read"} => c.token = None
    /\ Enrolling(c) => c.token \in Tokens
    /\ c.pc # "idle" /\ c.kind = "revoke" => c.token = None

Locals == \A p \in Commands : GoodCommand(cmd[p])

TInv == TypeOK /\ Locals

(* The lock file excludes: between lockStore and unlock it is the command's. *)
LockInv ==
    /\ \A p \in Commands : cmd[p].pc \in Locked => lock = p
    /\ lock # None => stale \/ cmd[lock].pc \in Locked

(* The document is one that readDocument accepts; its tokens are history. *)
StoreInv ==
    /\ IsFiniteSet(store)
    /\ Valid(store)
    /\ \A e \in store : e.token \in published

(* The document a command is about to write is the one at path, which nobody *)
(* replaced since it was read, but for the entry of its client.              *)
Prepared(c) ==
    c.pc \in {"output", "temp", "rename"} =>
      \/ /\ c.kind = "enroll"
         /\ c.doc = WithEntry(store, NewEntry(c)) /\ Valid(c.doc)
         /\ \A e \in Active(store) : e.client # c.client
      \/ c.kind = "revoke" /\ c.doc = WithoutBackend(store, c.client)

PreparedInv == \A p \in Commands : Prepared(cmd[p])

(* A drawn token is the command's own until the rename publishes it, and it *)
(* is in the output file from the time that was written.                    *)
TokenInv ==
    /\ \A p, q \in Commands : cmd[p].token = cmd[q].token => p = q \/ cmd[p].token = None
    /\ \A p \in Commands :
         /\ Enrolling(cmd[p]) => cmd[p].token \notin published \cup orphans
         /\ cmd[p].pc = "output" => \A o \in Outputs : out[o] # cmd[p].token
         /\ cmd[p].pc # "output" /\ Enrolling(cmd[p]) =>
              \A o \in Outputs : out[o] = cmd[p].token <=> o = cmd[p].output
         /\ cmd[p].pc = "unlock" /\ cmd[p].token # None =>
              cmd[p].token \in published \/ \A o \in Outputs : out[o] # cmd[p].token

OutInv ==
    /\ \A e \in Active(store) : \E o \in Outputs : out[o] = e.token
    /\ \A o \in Outputs : out[o] # None =>
         \/ out[o] \in published \cup orphans
         \/ \E p \in Commands : cmd[p].output = o /\ cmd[p].token = out[o]

(* A request whose token was revoked before it arrived finds no entry. *)
ReaderInv ==
    \A r \in Readers :
      /\ req[r].pc = "stat" /\ req[r].late => Revoked(req[r].token)
      /\ req[r].pc \in {"verify", "accepted"} => ~req[r].late /\ req[r].entry \in Entries

IInv ==
    /\ TypeOK
    /\ Locals
    /\ LockInv
    /\ StoreInv
    /\ PreparedInv
    /\ TokenInv
    /\ OutInv
    /\ ReaderInv

-----------------------------------------------------------------------------
(* How a step moves one command *)

(* Only the place of the command changes. *)
SameRun(c, d) ==
    /\ c.kind = d.kind /\ c.client = d.client /\ c.user = d.user /\ c.backend = d.backend
    /\ c.output = d.output /\ c.token = d.token /\ c.doc = d.doc

Others(p) == \A q \in Commands : q # p => cmd'[q] = cmd[q]

LEMMA GotoMoves ==
    ASSUME TypeOK, NEW p \in Commands, NEW pc \in PCs, Goto(p, pc)
    PROVE  /\ cmd' \in [Commands -> Runs]
           /\ cmd'[p].pc = pc /\ SameRun(cmd'[p], cmd[p]) /\ Others(p)
  <1>1. cmd \in [Commands -> Runs] BY DEF TypeOK, Runs
  <1> DEFINE r == [cmd[p] EXCEPT !.pc = pc]
  <1>2. r \in Runs /\ r.pc = pc /\ SameRun(r, cmd[p]) BY <1>1 DEF Runs, SameRun
  <1>3. cmd' = [cmd EXCEPT ![p] = r] BY DEF Goto
  <1> HIDE DEF r
  <1> QED BY <1>1, <1>2, <1>3 DEF Others

LEMMA ReturnMoves ==
    ASSUME TypeOK, NEW p \in Commands, Return(p)
    PROVE  cmd' \in [Commands -> Runs] /\ cmd'[p] = Idle /\ Others(p)
  <1>1. cmd \in [Commands -> Runs] BY DEF TypeOK, Runs
  <1>2. Idle \in Runs BY DEF Idle, Runs, PCs, Docs
  <1> QED BY <1>1, <1>2 DEF Return, Others

(* What the steps that change more than the place of a command leave. *)
Started(p, c, s, o) ==
    /\ cmd'[p].pc = "verify" /\ cmd'[p].kind = "enroll" /\ cmd'[p].client = c
    /\ cmd'[p].backend = s /\ cmd'[p].output = o /\ cmd'[p].token = None

LEMMA BeginEnrollMoves ==
    ASSUME TypeOK, NEW p \in Commands, NEW c \in Clients, NEW s \in Sessions, NEW o \in Outputs,
           BeginEnroll(p, c, s, o)
    PROVE  cmd' \in [Commands -> Runs] /\ Started(p, c, s, o) /\ Others(p)
  <1>1. cmd \in [Commands -> Runs] BY DEF TypeOK, Runs
  <1> DEFINE r == [Idle EXCEPT !.pc = "verify", !.kind = "enroll", !.client = c, !.backend = s, !.output = o]
  <1>2. r \in Runs BY DEF Idle, Runs, PCs, Docs
  <1>3. /\ r.pc = "verify" /\ r.kind = "enroll" /\ r.client = c
        /\ r.backend = s /\ r.output = o /\ r.token = None BY DEF Idle
  <1>4. cmd' = [cmd EXCEPT ![p] = r] BY DEF BeginEnroll
  <1> HIDE DEF r
  <1> QED BY <1>1, <1>2, <1>3, <1>4 DEF Others, Started

LEMMA BeginRevokeMoves ==
    ASSUME TypeOK, NEW p \in Commands, NEW c \in Clients, BeginRevoke(p, c)
    PROVE  /\ cmd' \in [Commands -> Runs] /\ Others(p)
           /\ cmd'[p].pc = "lock" /\ cmd'[p].kind = "revoke" /\ cmd'[p].client = c /\ cmd'[p].token = None
  <1>1. cmd \in [Commands -> Runs] BY DEF TypeOK, Runs
  <1> DEFINE r == [Idle EXCEPT !.pc = "lock", !.kind = "revoke", !.client = c]
  <1>2. r \in Runs BY DEF Idle, Runs, PCs, Docs
  <1>3. r.pc = "lock" /\ r.kind = "revoke" /\ r.client = c /\ r.token = None BY DEF Idle
  <1>4. cmd' = [cmd EXCEPT ![p] = r] BY DEF BeginRevoke
  <1> HIDE DEF r
  <1> QED BY <1>1, <1>2, <1>3, <1>4 DEF Others

LEMMA VerifiedMoves ==
    ASSUME TInv, NEW p \in Commands, Verified(p)
    PROVE  /\ cmd' \in [Commands -> Runs] /\ Others(p)
           /\ \/ cmd'[p] = Idle
              \/ /\ cmd'[p].pc = "lock" /\ cmd'[p].user \in Users
                 /\ \A f \in {"kind", "client", "backend", "output", "token", "doc"} : cmd'[p][f] = cmd[p][f]
  <1>1. cmd \in [Commands -> Runs] BY DEF TInv, TypeOK, Runs
  <1>2. CASE Return(p) BY <1>2, ReturnMoves DEF TInv
  <1>3. CASE cmd' = [cmd EXCEPT ![p].pc = "lock", ![p].user = owner[cmd[p].backend]]
    <2> DEFINE r == [cmd[p] EXCEPT !.pc = "lock", !.user = owner[cmd[p].backend]]
    <2>1. cmd[p].backend \in Sessions BY DEF Verified, At, TInv, Locals, GoodCommand
    <2>2. owner[cmd[p].backend] \in Users BY <2>1 DEF TInv, TypeOK
    <2>3. r \in Runs /\ r.pc = "lock" /\ r.user \in Users BY <1>1, <2>2 DEF Runs, PCs
    <2>4. \A f \in {"kind", "client", "backend", "output", "token", "doc"} : r[f] = cmd[p][f]
      BY <1>1 DEF Runs
    <2>5. cmd' = [cmd EXCEPT ![p] = r] BY <1>3
    <2> HIDE DEF r
    <2> QED BY <1>1, <2>3, <2>4, <2>5 DEF Others
  <1> QED BY <1>2, <1>3 DEF Verified

(* The document is read and a token drawn. *)
Drawn(p, t) ==
    /\ cmd'[p].pc = "output" /\ cmd'[p].kind = "enroll" /\ cmd'[p].client = cmd[p].client
    /\ cmd'[p].user = cmd[p].user /\ cmd'[p].backend = cmd[p].backend
    /\ cmd'[p].output = cmd[p].output /\ cmd'[p].token = t
    /\ cmd'[p].doc = WithEntry(store, NewEntry(cmd'[p])) /\ Valid(cmd'[p].doc)
    /\ \A e \in Active(store) : e.client # cmd[p].client

LEMMA ReadForEnrollMoves ==
    ASSUME TInv, NEW p \in Commands, ReadForEnroll(p)
    PROVE  /\ cmd' \in [Commands -> Runs] /\ Others(p)
           /\ \/ cmd'[p].pc = "unlock" /\ SameRun(cmd'[p], cmd[p])
              \/ \E t \in Tokens \ (published \cup orphans \cup {cmd[q].token : q \in Commands}) : Drawn(p, t)
  <1>1. cmd \in [Commands -> Runs] BY DEF TInv, TypeOK, Runs
  <1>2. CASE Goto(p, "unlock") BY <1>2, GotoMoves DEF TInv, PCs, Locked
  <1>3. CASE ~Goto(p, "unlock")
    <2> DEFINE New(t) == WithEntry(store, [client |-> cmd[p].client, user |-> cmd[p].user, token |-> t,
                                           backend |-> cmd[p].backend])
               r(t) == [cmd[p] EXCEPT !.pc = "output", !.token = t, !.doc = New(t)]
    <2>1. PICK t \in Tokens \ (published \cup orphans \cup {cmd[q].token : q \in Commands}) :
            /\ \A e \in Active(store) : e.client # cmd[p].client
            /\ Valid(New(t))
            /\ cmd' = [cmd EXCEPT ![p].pc = "output", ![p].token = t, ![p].doc = New(t)]
      BY <1>3 DEF ReadForEnroll
    <2>2. cmd[p].kind = "enroll" /\ cmd[p].pc = "read" BY DEF ReadForEnroll, At
    <2>3. cmd[p].client \in Clients /\ cmd[p].user \in Users /\ cmd[p].backend \in Sessions
      BY <2>2 DEF TInv, Locals, GoodCommand
    <2>4. New(t) \in Docs BY <2>3 DEF WithEntry, Docs, Entries, TInv, TypeOK
    <2> HIDE DEF New
    <2>5. r(t) \in Runs BY <1>1, <2>4 DEF Runs, PCs, Locked
    <2>6. /\ r(t).pc = "output" /\ r(t).kind = "enroll" /\ r(t).client = cmd[p].client
          /\ r(t).user = cmd[p].user /\ r(t).backend = cmd[p].backend
          /\ r(t).output = cmd[p].output /\ r(t).token = t /\ r(t).doc = New(t)
      BY <1>1, <2>2 DEF Runs
    <2>7. cmd' = [cmd EXCEPT ![p] = r(t)] BY <2>1
    <2> HIDE DEF r
    <2>8. cmd'[p] = r(t) /\ Others(p) /\ cmd' \in [Commands -> Runs] BY <1>1, <2>5, <2>7 DEF Others
    <2>9. New(t) = WithEntry(store, NewEntry(cmd'[p])) BY <2>6, <2>8 DEF New, NewEntry
    <2> QED BY <2>1, <2>6, <2>8, <2>9 DEF Drawn
  <1> QED BY <1>2, <1>3

LEMMA ReadForRevokeMoves ==
    ASSUME TInv, NEW p \in Commands, ReadForRevoke(p)
    PROVE  /\ cmd' \in [Commands -> Runs] /\ Others(p)
           /\ \/ cmd'[p].pc = "unlock" /\ SameRun(cmd'[p], cmd[p])
              \/ /\ cmd'[p].pc = "temp" /\ cmd'[p].doc = WithoutBackend(store, cmd[p].client)
                 /\ \A f \in {"kind", "client", "user", "backend", "output", "token"} : cmd'[p][f] = cmd[p][f]
  <1>1. cmd \in [Commands -> Runs] BY DEF TInv, TypeOK, Runs
  <1>2. CASE Goto(p, "unlock") BY <1>2, GotoMoves DEF TInv, PCs, Locked
  <1>3. CASE ~Goto(p, "unlock")
    <2> DEFINE new == WithoutBackend(store, cmd[p].client)
               r == [cmd[p] EXCEPT !.pc = "temp", !.doc = new]
    <2>1. \A e \in store : [e EXCEPT !.backend = None] \in Entries
      BY DEF TInv, TypeOK, Docs, Entries
    <2>2. new \in Docs BY <2>1 DEF WithoutBackend, Docs, TInv, TypeOK
    <2>3. cmd' = [cmd EXCEPT ![p] = r] BY <1>3 DEF ReadForRevoke
    <2> HIDE DEF new
    <2>4. r \in Runs /\ r.pc = "temp" /\ r.doc = new BY <1>1, <2>2 DEF Runs, PCs, Locked
    <2>5. \A f \in {"kind", "client", "user", "backend", "output", "token"} : r[f] = cmd[p][f]
      BY <1>1 DEF Runs
    <2> HIDE DEF r
    <2> QED BY <1>1, <2>3, <2>4, <2>5 DEF Others, new
  <1> QED BY <1>2, <1>3

-----------------------------------------------------------------------------
(* Type correctness *)

LEMMA LocalsMove ==
    ASSUME Locals, NEW p \in Commands, Others(p), GoodCommand(cmd'[p])
    PROVE  Locals'
  BY DEF Locals, Others, GoodCommand, Enrolling

LEMMA TypeInit == Init => TInv
  <1> SUFFICES ASSUME Init PROVE TInv OBVIOUS
  <1>1. Idle \in Runs BY DEF Idle, Runs, PCs, Docs
  <1>2. Quiet \in Requests BY DEF Quiet, Requests
  <1>3. cmd \in [Commands -> Runs] /\ req \in [Readers -> Requests] BY <1>1, <1>2 DEF Init
  <1>4. store \in Docs /\ out \in [Outputs -> Tokens \cup {None}] BY DEF Init, Docs
  <1>5. TypeOK BY <1>3, <1>4 DEF Init, TypeOK, Runs, Requests
  <1>6. Locals BY DEF Init, Locals, GoodCommand, Enrolling, Idle
  <1> QED BY <1>5, <1>6 DEF TInv

LEMMA TypeStep == TInv /\ [Next]_vars => TInv'
  <1> SUFFICES ASSUME TInv, [Next]_vars PROVE TInv' OBVIOUS
  <1>t. TypeOK /\ Locals /\ \A p \in Commands : GoodCommand(cmd[p]) BY DEF TInv, Locals
  <1>l. \A pc \in Locked : pc \in PCs BY DEF PCs
  <1> DEFINE TypeCmd == cmd' \in [Commands -> Runs]
  <1>0. CASE UNCHANGED vars
    BY <1>0, <1>t DEF vars, files, history, TInv, TypeOK, Locals
  <1>1. ASSUME NEW p \in Commands, NEW c \in Clients, NEW s \in Sessions, NEW o \in Outputs, BeginEnroll(p, c, s, o)
        PROVE  TInv'
    <2>1. TypeCmd /\ Started(p, c, s, o) /\ Others(p) BY <1>1, <1>t, BeginEnrollMoves
    <2>2. GoodCommand(cmd'[p]) BY <2>1 DEF Started, GoodCommand, Enrolling
    <2>3. Locals' BY <1>t, <2>1, <2>2, LocalsMove
    <2> QED BY <1>1, <1>t, <2>1, <2>3 DEF BeginEnroll, files, history, TInv, TypeOK, Runs
  <1>2. ASSUME NEW p \in Commands, NEW c \in Clients, BeginRevoke(p, c) PROVE TInv'
    <2>1. /\ TypeCmd /\ Others(p)
          /\ cmd'[p].pc = "lock" /\ cmd'[p].kind = "revoke" /\ cmd'[p].client = c /\ cmd'[p].token = None
      BY <1>2, <1>t, BeginRevokeMoves
    <2>2. GoodCommand(cmd'[p]) BY <2>1 DEF GoodCommand, Enrolling
    <2>3. Locals' BY <1>t, <2>1, <2>2, LocalsMove
    <2> QED BY <1>2, <1>t, <2>1, <2>3 DEF BeginRevoke, files, history, TInv, TypeOK, Runs
  <1>3. ASSUME NEW p \in Commands, Verified(p) PROVE TInv'
    <2>1. TypeCmd /\ Others(p) BY <1>3, VerifiedMoves
    <2>2. GoodCommand(cmd'[p])
      <3>1. CASE cmd'[p] = Idle BY <3>1 DEF GoodCommand, Enrolling, Idle
      <3>2. CASE cmd'[p] # Idle
        <4>1. /\ cmd'[p].pc = "lock" /\ cmd'[p].user \in Users
              /\ cmd'[p].kind = cmd[p].kind /\ cmd'[p].client = cmd[p].client
              /\ cmd'[p].backend = cmd[p].backend /\ cmd'[p].output = cmd[p].output /\ cmd'[p].token = cmd[p].token
          BY <1>3, <3>2, VerifiedMoves
        <4> QED BY <1>3, <1>t, <4>1 DEF Verified, At, GoodCommand, Enrolling
      <3> QED BY <3>1, <3>2
    <2>3. Locals' BY <1>t, <2>1, <2>2, LocalsMove
    <2> QED BY <1>3, <1>t, <2>1, <2>3 DEF Verified, files, history, TInv, TypeOK, Runs
  (* The steps that only move on, to a place where less is known. *)
  <1>g. ASSUME NEW p \in Commands, NEW pc \in Locked, Goto(p, pc), cmd[p].pc \in Locked \cup {"lock"},
               cmd[p].pc \in {"read", "unlock"} => pc = "unlock",
               pc \in {"output", "undo"} => cmd[p].kind = "enroll",
               pc = "read" => cmd[p].pc = "lock",
               cmd[p].pc = "lock" => pc = "read"
        PROVE  TypeCmd /\ Locals' /\ Others(p)
    <2>1. TypeCmd /\ cmd'[p].pc = pc /\ SameRun(cmd'[p], cmd[p]) /\ Others(p) BY <1>g, <1>t, <1>l, GotoMoves
    <2>2. GoodCommand(cmd'[p]) BY <1>g, <1>t, <2>1 DEF GoodCommand, Enrolling, SameRun, Locked
    <2> QED BY <1>t, <2>1, <2>2, LocalsMove
  <1>r. ASSUME NEW p \in Commands, Return(p) PROVE TypeCmd /\ Locals'
    <2>1. TypeCmd /\ cmd'[p] = Idle /\ Others(p) BY <1>r, <1>t, ReturnMoves
    <2>2. GoodCommand(cmd'[p]) BY <2>1 DEF GoodCommand, Enrolling, Idle
    <2> QED BY <1>t, <2>1, <2>2, LocalsMove
  <1>w. ASSUME NEW p \in Commands, cmd[p].pc \in {"temp", "rename"}, WriteFailed(p) PROVE TypeCmd /\ Locals'
    <2>1. CASE cmd[p].kind = "enroll" BY <1>w, <1>g, <2>1 DEF WriteFailed, Locked
    <2>2. CASE cmd[p].kind # "enroll" BY <1>w, <1>g, <2>2 DEF WriteFailed, Locked
    <2> QED BY <2>1, <2>2
  <1>4. ASSUME NEW p \in Commands, Lock(p) PROVE TInv'
    <2>1. TypeCmd /\ Locals' BY <1>4, <1>g, <1>r DEF Lock, At, Locked
    <2> QED BY <1>4, <1>t, <2>1 DEF Lock, history, TInv, TypeOK, Runs
  <1>5. ASSUME NEW p \in Commands, ReadForEnroll(p) PROVE TInv'
    <2>1. TypeCmd /\ Others(p) BY <1>5, ReadForEnrollMoves
    <2>2. GoodCommand(cmd'[p])
      <3>0. cmd[p].pc = "read" /\ cmd[p].kind = "enroll" BY <1>5 DEF ReadForEnroll, At
      <3>1. CASE cmd'[p].pc = "unlock" /\ SameRun(cmd'[p], cmd[p])
        BY <3>0, <3>1, <1>t DEF GoodCommand, Enrolling, SameRun
      <3>2. ASSUME NEW t \in Tokens, Drawn(p, t) PROVE GoodCommand(cmd'[p])
        BY <3>0, <3>2, <1>t DEF GoodCommand, Enrolling, Drawn
      <3> QED BY <1>5, <3>1, <3>2, ReadForEnrollMoves
    <2>3. Locals' BY <1>t, <2>1, <2>2, LocalsMove
    <2> QED BY <1>5, <1>t, <2>1, <2>3 DEF ReadForEnroll, files, history, TInv, TypeOK, Runs
  <1>6. ASSUME NEW p \in Commands, ReadForRevoke(p) PROVE TInv'
    <2>1. TypeCmd /\ Others(p) BY <1>6, ReadForRevokeMoves
    <2>2. GoodCommand(cmd'[p])
      <3>0. cmd[p].pc = "read" /\ cmd[p].kind = "revoke" BY <1>6 DEF ReadForRevoke, At
      <3>1. /\ cmd'[p].pc \in {"temp", "unlock"} /\ cmd'[p].kind = cmd[p].kind
            /\ cmd'[p].client = cmd[p].client /\ cmd'[p].token = cmd[p].token
        BY <1>6, ReadForRevokeMoves DEF SameRun
      <3> QED BY <3>0, <3>1, <1>t DEF GoodCommand, Enrolling
    <2>3. Locals' BY <1>t, <2>1, <2>2, LocalsMove
    <2> QED BY <1>6, <1>t, <2>1, <2>3 DEF ReadForRevoke, files, history, TInv, TypeOK, Runs
  <1>7. ASSUME NEW p \in Commands, CreateOutput(p) PROVE TInv'
    <2>1. cmd[p].pc = "output" /\ cmd[p].kind = "enroll" /\ cmd[p].token \in Tokens
      BY <1>7, <1>t DEF CreateOutput, At, GoodCommand, Enrolling
    <2>2. TypeCmd /\ Locals' BY <1>7, <1>g, <2>1 DEF CreateOutput, Locked
    <2>3. out' \in [Outputs -> Tokens \cup {None}] BY <1>7, <1>t, <2>1 DEF CreateOutput, TypeOK
    <2> QED BY <1>7, <1>t, <2>2, <2>3 DEF CreateOutput, history, TInv, TypeOK, Runs
  <1>8. ASSUME NEW p \in Commands, WriteTemp(p) PROVE TInv'
    <2>1. TypeCmd /\ Locals' BY <1>8, <1>g, <1>w DEF WriteTemp, At, Locked
    <2> QED BY <1>8, <1>t, <2>1 DEF WriteTemp, files, history, TInv, TypeOK, Runs
  <1>9. ASSUME NEW p \in Commands, Rename(p) PROVE TInv'
    <2>1. TypeCmd /\ Locals' BY <1>9, <1>g, <1>w DEF Rename, At, Locked
    <2>2. cmd[p].doc \in Docs BY <1>t DEF TypeOK
    <2>3. {e.token : e \in cmd[p].doc} \subseteq Tokens BY <2>2 DEF Docs, Entries
    <2>4. \A r \in Readers : [req[r] EXCEPT !.same = FALSE] \in Requests BY <1>t DEF TypeOK, Requests
    <2>5. req' \in [Readers -> Requests] BY <1>9, <1>t, <2>4 DEF Rename, TypeOK, Requests
    <2>6. store' \in Docs /\ published' \subseteq Tokens /\ exists' \in BOOLEAN
      BY <1>9, <1>t, <2>2, <2>3 DEF Rename, TypeOK
    <2> QED BY <1>9, <1>t, <2>1, <2>5, <2>6 DEF Rename, TInv, TypeOK, Runs, Requests
  <1>10. ASSUME NEW p \in Commands, Undo(p) PROVE TInv'
    <2>1. TypeCmd /\ Locals' BY <1>10, <1>g DEF Undo, At, Locked
    <2>2. out' \in [Outputs -> Tokens \cup {None}] BY <1>10, <1>t DEF Undo, TypeOK
    <2> QED BY <1>10, <1>t, <2>1, <2>2 DEF Undo, history, TInv, TypeOK, Runs
  <1>11. ASSUME NEW p \in Commands, Unlock(p) PROVE TInv'
    BY <1>11, <1>t, <1>r DEF Unlock, history, TInv, TypeOK, Runs
  <1>12. ASSUME NEW p \in Commands, Crash(p) PROVE TInv'
    <2>1. cmd[p].token \in Tokens \cup {None} BY <1>t DEF TypeOK
    <2> QED BY <1>12, <1>t, <1>r, <2>1 DEF Crash, files, TInv, TypeOK, Runs
  <1>13. CASE ClearLock BY <1>13, <1>t DEF ClearLock, TInv, TypeOK, Locals
  <1>14. ASSUME NEW o \in Outputs, Discard(o) PROVE TInv'
    BY <1>14, <1>t DEF Discard, history, TInv, TypeOK, Locals
  <1>15. ASSUME NEW s \in Sessions, NEW u \in Users, SessionChanges(s, u) PROVE TInv'
    BY <1>15, <1>t DEF SessionChanges, files, history, TInv, TypeOK, Locals
  <1>16. ASSUME NEW r \in Readers, Reader(r) PROVE TInv'
    <2>1. req' \in [Readers -> Requests]
      <3>1. req \in [Readers -> Requests] /\ store \subseteq Entries BY <1>t DEF TypeOK, Requests, Docs
      <3>2. Quiet \in Requests BY DEF Quiet, Requests
      <3>3. CASE Refuse(r) BY <3>1, <3>2, <3>3 DEF Refuse
      <3>4. ASSUME NEW t \in Tokens, Arrive(r, t) PROVE req' \in [Readers -> Requests]
        <4>1. [Quiet EXCEPT !.pc = "stat", !.token = t, !.late = Revoked(t)] \in Requests
          BY <3>2 DEF Quiet, Requests, Revoked
        <4> QED BY <3>1, <3>4, <4>1 DEF Arrive
      <3>5. ASSUME NEW e \in Matched(r), req' = [req EXCEPT ![r].pc = "verify", ![r].entry = e]
            PROVE  req' \in [Readers -> Requests]
        <4>1. e \in Entries BY <3>1 DEF Matched, Active
        <4> QED BY <3>1, <3>5, <4>1 DEF Requests
      <3>6. CASE req' = [req EXCEPT ![r].pc = "accepted"] BY <3>1, <3>6 DEF Requests
      <3> QED BY <1>16, <3>3, <3>4, <3>5, <3>6 DEF Reader, Open, BackendReply, Answered
    <2>2. UNCHANGED <<files, owner, cmd, history>>
      BY <1>16 DEF Reader, Arrive, Open, BackendReply, Answered
    <2> QED BY <1>t, <2>1, <2>2 DEF files, history, TInv, TypeOK, Locals, Requests
  <1> QED BY <1>0, <1>1, <1>2, <1>3, <1>4, <1>5, <1>6, <1>7, <1>8, <1>9, <1>10, <1>11, <1>12,
             <1>13, <1>14, <1>15, <1>16, NextCases

-----------------------------------------------------------------------------
(* What a step does *)

(* The steps of a command, by what they do to its own record. *)
StepOf(p) ==
    \/ \E c \in Clients, s \in Sessions, o \in Outputs : BeginEnroll(p, c, s, o)
    \/ \E c \in Clients : BeginRevoke(p, c)
    \/ Verified(p) \/ Lock(p) \/ ReadForEnroll(p) \/ ReadForRevoke(p) \/ CreateOutput(p)
    \/ WriteTemp(p) \/ Rename(p) \/ Undo(p) \/ Unlock(p) \/ Crash(p)

LEMMA StepCases ==
    ASSUME [Next]_vars
    PROVE  \/ \E p \in Commands : StepOf(p)
           \/ ClearLock
           \/ \E o \in Outputs : Discard(o)
           \/ UNCHANGED <<files, cmd, history>>
  BY NextCases DEF StepOf, SessionChanges, Reader, Arrive, Open, BackendReply, Answered, vars, files, history

(* A command moves: it takes the lock; reads; goes on with what it holds, in *)
(* the order of the code; or ends.  Outside of the lock it has no token.     *)
Reads(p) ==
    /\ cmd[p].pc = "read" /\ UNCHANGED <<files, history>>
    /\ \/ cmd[p].kind = "enroll" /\ \E t \in Tokens \ (published \cup orphans \cup {cmd[q].token : q \in Commands}) :
                                       Drawn(p, t)
       \/ /\ cmd[p].kind = "revoke" /\ cmd'[p].kind = "revoke" /\ cmd'[p].pc = "temp"
          /\ cmd'[p].client = cmd[p].client /\ cmd'[p].token = cmd[p].token
          /\ cmd'[p].doc = WithoutBackend(store, cmd[p].client)

GoesOn(p) ==
    /\ SameRun(cmd'[p], cmd[p])
    /\ \/ cmd[p].pc = "lock" /\ cmd'[p].pc = "read" /\ Lock(p)
       \/ cmd[p].pc = "read" /\ cmd'[p].pc = "unlock" /\ UNCHANGED <<files, history>>
       \/ cmd[p].pc = "output" /\ cmd'[p].pc \in {"temp", "undo", "unlock"} /\ CreateOutput(p)
       \/ /\ cmd[p].pc = "temp" /\ cmd'[p].pc = "rename" /\ UNCHANGED <<files, history>>
       \/ /\ cmd[p].pc \in {"temp", "rename"} /\ WriteFailed(p) /\ UNCHANGED <<files, history>>
          /\ cmd'[p].pc = IF cmd[p].kind = "enroll" THEN "undo" ELSE "unlock"
       \/ /\ cmd[p].pc = "rename" /\ cmd'[p].pc = "unlock" /\ UNCHANGED <<lock, out, orphans, stale>>
          /\ store' = cmd[p].doc /\ published' = published \cup {e.token : e \in cmd[p].doc}
       \/ cmd[p].pc = "undo" /\ cmd'[p].pc = "unlock" /\ Undo(p)

Outside(p) ==
    /\ cmd'[p].pc \in {"idle", "verify", "lock"} /\ cmd'[p].token = None
    /\ \/ cmd[p].pc \in {"idle", "verify", "lock"} /\ UNCHANGED <<files, history>>
       \/ Unlock(p)
       \/ Crash(p)

LEMMA StepMoves ==
    ASSUME TInv, NEW p \in Commands, StepOf(p)
    PROVE  Others(p) /\ (Reads(p) \/ GoesOn(p) \/ Outside(p))
  <1>t. TypeOK /\ GoodCommand(cmd[p]) BY DEF TInv, Locals
  <1>l. \A pc \in Locked : pc \in PCs BY DEF PCs
  <1>g. ASSUME NEW pc \in Locked, Goto(p, pc)
        PROVE  Others(p) /\ cmd'[p].pc = pc /\ SameRun(cmd'[p], cmd[p])
    BY <1>g, <1>t, <1>l, GotoMoves
  <1>r. ASSUME Return(p) PROVE Others(p) /\ cmd'[p].pc = "idle" /\ cmd'[p].token = None
    BY <1>r, <1>t, ReturnMoves DEF Idle
  <1>w. ASSUME WriteFailed(p)
        PROVE  /\ Others(p) /\ SameRun(cmd'[p], cmd[p])
               /\ cmd'[p].pc = IF cmd[p].kind = "enroll" THEN "undo" ELSE "unlock"
    BY <1>w, <1>g DEF WriteFailed, Locked
  <1> DEFINE Goal == Others(p) /\ (Reads(p) \/ GoesOn(p) \/ Outside(p))
  <1>1. ASSUME NEW c \in Clients, NEW s \in Sessions, NEW o \in Outputs, BeginEnroll(p, c, s, o) PROVE Goal
    BY <1>1, <1>t, BeginEnrollMoves DEF BeginEnroll, At, Started, Outside
  <1>2. ASSUME NEW c \in Clients, BeginRevoke(p, c) PROVE Goal
    BY <1>2, <1>t, BeginRevokeMoves DEF BeginRevoke, At, Outside
  <1>3. CASE Verified(p)
    <2>1. cmd[p].pc = "verify" /\ cmd[p].token = None BY <1>3, <1>t DEF Verified, At, GoodCommand
    <2>2. Others(p) /\ cmd'[p].pc \in {"idle", "lock"} /\ cmd'[p].token = None
      <3>1. CASE cmd'[p] = Idle BY <1>3, <3>1, VerifiedMoves DEF Idle
      <3>2. CASE cmd'[p] # Idle BY <1>3, <2>1, <3>2, VerifiedMoves
      <3> QED BY <3>1, <3>2
    <2> QED BY <1>3, <2>1, <2>2 DEF Verified, Outside
  <1>4. CASE Lock(p)
    <2>1. cmd[p].pc = "lock" BY <1>4 DEF Lock, At
    <2>2. CASE lock = None BY <1>4, <1>g, <2>1, <2>2 DEF Lock, Locked, GoesOn
    <2>3. CASE lock # None BY <1>4, <1>r, <2>1, <2>3 DEF Lock, Outside, files, history
    <2> QED BY <2>2, <2>3
  <1>5. CASE ReadForEnroll(p) BY <1>5, ReadForEnrollMoves DEF ReadForEnroll, At, Reads, GoesOn
  <1>6. CASE ReadForRevoke(p)
    <2>1. CASE cmd'[p].pc = "unlock" BY <1>6, <2>1, ReadForRevokeMoves DEF ReadForRevoke, At, GoesOn
    <2>2. CASE cmd'[p].pc # "unlock"
      BY <1>6, <2>2, ReadForRevokeMoves DEF ReadForRevoke, At, Reads
    <2> QED BY <2>1, <2>2
  <1>7. CASE CreateOutput(p) BY <1>7, <1>g DEF CreateOutput, At, Locked, GoesOn
  <1>8. CASE WriteTemp(p)
    <2>1. CASE Goto(p, "rename") BY <1>8, <1>g, <2>1 DEF WriteTemp, At, Locked, GoesOn
    <2>2. CASE WriteFailed(p) BY <1>8, <1>w, <2>2 DEF WriteTemp, At, GoesOn
    <2> QED BY <1>8, <2>1, <2>2 DEF WriteTemp
  <1>9. CASE Rename(p)
    <2>1. CASE WriteFailed(p) /\ UNCHANGED <<exists, store, req, published>>
      BY <1>9, <1>w, <2>1 DEF Rename, At, GoesOn, files, history
    <2>2. CASE Goto(p, "unlock") /\ store' = cmd[p].doc /\ published' = published \cup {e.token : e \in cmd[p].doc}
      BY <1>9, <1>g, <2>2 DEF Rename, At, Locked, GoesOn
    <2> QED BY <1>9, <2>1, <2>2 DEF Rename
  <1>10. CASE Undo(p) BY <1>10, <1>g DEF Undo, At, Locked, GoesOn
  <1>11. CASE Unlock(p) BY <1>11, <1>r DEF Unlock, Outside
  <1>12. CASE Crash(p) BY <1>12, <1>r DEF Crash, Outside
  <1> QED BY <1>1, <1>2, <1>3, <1>4, <1>5, <1>6, <1>7, <1>8, <1>9, <1>10, <1>11, <1>12 DEF StepOf

-----------------------------------------------------------------------------
(* The lock *)

LEMMA LockStep ==
    ASSUME TInv, LockInv, [Next]_vars PROVE LockInv'
  <1>t. lock \in Commands \cup {None} /\ None \notin Commands BY StoreAssumption DEF TInv, TypeOK
  <1>1. ASSUME NEW p \in Commands, StepOf(p) PROVE LockInv'
    <2>1. Others(p) /\ (Reads(p) \/ GoesOn(p) \/ Outside(p)) BY <1>1, StepMoves
    <2>2. ASSUME UNCHANGED <<lock, stale>>, cmd[p].pc \in Locked <=> cmd'[p].pc \in Locked PROVE LockInv'
      BY <1>t, <2>1, <2>2 DEF LockInv, Others
    <2>3. CASE Reads(p)
      <3>1. cmd[p].pc \in Locked /\ cmd'[p].pc \in Locked BY <2>3 DEF Reads, Drawn, Locked
      <3> QED BY <2>2, <2>3, <3>1 DEF Reads, files, history
    <2>4. CASE GoesOn(p)
      <3>1. CASE cmd[p].pc = "lock"
        <4>3. cmd'[p].pc = "read" /\ Lock(p) BY <2>4, <3>1 DEF GoesOn
        <4>4. ~Return(p) BY <4>3, ReturnMoves DEF TInv, Idle
        <4>1. lock = None /\ lock' = p BY <4>3, <4>4 DEF Lock
        <4>2. \A q \in Commands : cmd[q].pc \notin Locked BY <1>t, <4>1 DEF LockInv
        <4> QED BY <2>1, <4>1, <4>2, <4>3 DEF LockInv, Others, Locked
      <3>2. CASE cmd[p].pc # "lock"
        <4>1. cmd[p].pc \in Locked /\ cmd'[p].pc \in Locked BY <2>4, <3>2 DEF GoesOn, Locked
        <4>2. UNCHANGED <<lock, stale>>
          BY <2>4, <3>2 DEF GoesOn, CreateOutput, Undo, files, history
        <4> QED BY <2>2, <4>1, <4>2
      <3> QED BY <3>1, <3>2
    <2>5. CASE Outside(p)
      <3>0. cmd'[p].pc \notin Locked BY <2>5 DEF Outside, Locked
      <3>1. CASE Unlock(p)
        <4>1. cmd[p].pc \in Locked /\ lock' = None BY <3>1 DEF Unlock, At, Locked
        <4>2. \A q \in Commands : q # p => cmd[q].pc \notin Locked BY <4>1 DEF LockInv
        <4> QED BY <2>1, <3>0, <4>1, <4>2 DEF LockInv, Others
      <3>2. CASE Crash(p)
        <4>1. lock' = lock /\ stale' = (stale \/ cmd[p].pc \in Locked) BY <3>2 DEF Crash, files
        <4> QED BY <1>t, <2>1, <3>0, <4>1 DEF LockInv, Others
      <3>3. CASE cmd[p].pc \in {"idle", "verify", "lock"} /\ UNCHANGED <<files, history>>
        BY <2>2, <3>0, <3>3 DEF Locked, files, history
      <3> QED BY <2>5, <3>1, <3>2, <3>3 DEF Outside
    <2> QED BY <2>1, <2>3, <2>4, <2>5
  <1>2. CASE ClearLock
    <2>1. \A q \in Commands : cmd[q].pc = "idle" BY <1>2 DEF ClearLock, NoneRuns, At
    <2> QED BY <1>2, <2>1 DEF ClearLock, LockInv, Locked
  <1>3. ASSUME NEW o \in Outputs, Discard(o) PROVE LockInv'
    BY <1>3 DEF Discard, LockInv, history
  <1>4. CASE UNCHANGED <<files, cmd, history>> BY <1>4 DEF LockInv, files, history
  <1> QED BY <1>1, <1>2, <1>3, <1>4, StepCases

-----------------------------------------------------------------------------
(* The document *)

(* A set is at least as large as its image by a function. *)
LEMMA ImageCardinality ==
    ASSUME NEW S, IsFiniteSet(S), NEW g, DOMAIN g = S, g = [e \in S |-> g[e]]
    PROVE  /\ IsFiniteSet({g[e] : e \in S})
           /\ Cardinality({g[e] : e \in S}) <= Cardinality(S)
           /\ Cardinality({g[e] : e \in S}) \in Nat /\ Cardinality(S) \in Nat
  <1> DEFINE T == {g[e] : e \in S}
  <1>1. g \in [S -> T] OBVIOUS
  <1>2. \A t \in T : \E e \in S : g[e] = t OBVIOUS
  <1>3. g \in Surjection(S, T) BY <1>1, <1>2 DEF Surjection
  <1>4. IsFiniteSet(T) /\ Cardinality(T) <= Cardinality(S) BY <1>3, FS_Surjection
  <1> QED BY <1>4, FS_CardinalityType

(* Revoking a client clears its backend session and keeps everything else. *)
Cleared(e, c) == IF e.client = c THEN [e EXCEPT !.backend = None] ELSE e

LEMMA ClearedFields ==
    ASSUME NEW e \in Entries, NEW c
    PROVE  /\ Cleared(e, c) \in Entries
           /\ Cleared(e, c).client = e.client /\ Cleared(e, c).user = e.user /\ Cleared(e, c).token = e.token
           /\ Cleared(e, c).backend = IF e.client = c THEN None ELSE e.backend
  BY DEF Cleared, Entries

LEMMA WithoutBackendKeeps ==
    ASSUME NEW doc \in Docs, IsFiniteSet(doc), Valid(doc), NEW c
    PROVE  /\ IsFiniteSet(WithoutBackend(doc, c)) /\ Valid(WithoutBackend(doc, c))
           /\ WithoutBackend(doc, c) = {Cleared(e, c) : e \in doc}
           /\ Active(WithoutBackend(doc, c)) = {e \in Active(doc) : e.client # c}
  <1>e. \A e \in doc : e \in Entries BY DEF Docs
  <1> DEFINE g == [e \in doc |-> Cleared(e, c)]
             new == WithoutBackend(doc, c)
  <1>1. new = {g[e] : e \in doc} /\ new = {Cleared(e, c) : e \in doc} BY DEF WithoutBackend, Cleared
  <1>2. IsFiniteSet(new) /\ Cardinality(new) <= Cardinality(doc) /\ Cardinality(new) \in Nat /\ Cardinality(doc) \in Nat
    <2>1. DOMAIN g = doc /\ g = [e \in doc |-> g[e]] OBVIOUS
    <2> HIDE DEF g, new
    <2> QED BY <1>1, <2>1, ImageCardinality
  <1>3. Cardinality(new) <= MaxEntries BY <1>2, StoreAssumption DEF Valid
  <1>4. ASSUME NEW d \in doc, NEW e \in doc
        PROVE  LET x == Cleared(d, c)
                   y == Cleared(e, c)
               IN /\ x.token = y.token \/ x.client = y.client => x = y
                  /\ x.backend = y.backend /\ x.backend # None => x.user = y.user
    <2>1. d \in Entries /\ e \in Entries BY <1>e
    <2>2. d.token = e.token \/ d.client = e.client => d = e BY DEF Valid
    <2>3. d.backend = e.backend /\ d.backend # None => d.user = e.user BY DEF Valid
    <2> QED BY <2>1, <2>2, <2>3, ClearedFields
  <1>5. Valid(new)
    <2> HIDE DEF new
    <2> QED BY <1>1, <1>3, <1>4 DEF Valid
  <1>6. Active(new) = {e \in Active(doc) : e.client # c}
    <2>1. \A e \in doc : Cleared(e, c).backend # None => e.client # c /\ Cleared(e, c) = e
      BY <1>e, ClearedFields DEF Cleared
    <2>2. \A e \in doc : e.client # c => Cleared(e, c) = e BY DEF Cleared
    <2> HIDE DEF new
    <2> QED BY <1>1, <2>1, <2>2 DEF Active
  <1> QED BY <1>1, <1>2, <1>5, <1>6

LEMMA WithEntryFinite ==
    ASSUME NEW doc, IsFiniteSet(doc), NEW e PROVE IsFiniteSet(WithEntry(doc, e))
  <1>1. IsFiniteSet({d \in doc : d.client # e.client}) BY FS_Subset
  <1> QED BY <1>1, FS_AddElement DEF WithEntry

(* The rename of a prepared document is all that changes the store. *)
Published(p) ==
    /\ cmd[p].pc = "rename" /\ cmd'[p].pc = "unlock" /\ SameRun(cmd'[p], cmd[p]) /\ Others(p)
    /\ UNCHANGED <<lock, out, orphans, stale>>
    /\ store' = cmd[p].doc /\ published' = published \cup {e.token : e \in cmd[p].doc}

LEMMA StoreMoves ==
    ASSUME TInv, [Next]_vars
    PROVE  UNCHANGED <<store, published>> \/ \E p \in Commands : Published(p)
  <1>1. ASSUME NEW p \in Commands, StepOf(p)
        PROVE  UNCHANGED <<store, published>> \/ Published(p)
    <2>1. Others(p) /\ (Reads(p) \/ GoesOn(p) \/ Outside(p)) BY <1>1, StepMoves
    <2> QED BY <2>1 DEF Reads, GoesOn, Outside, Published, Lock, CreateOutput, Undo, Unlock, Crash, files, history
  <1> QED BY <1>1, StepCases DEF ClearLock, Discard, files, history

LEMMA StoreStep ==
    ASSUME TInv, StoreInv, PreparedInv, [Next]_vars PROVE StoreInv'
  <1>1. CASE UNCHANGED <<store, published>> BY <1>1 DEF StoreInv
  <1>2. ASSUME NEW p \in Commands, Published(p) PROVE StoreInv'
    <2>1. IsFiniteSet(store) /\ Valid(store) /\ store \in Docs BY DEF StoreInv, TInv, TypeOK
    <2>2. store' = cmd[p].doc BY <1>2 DEF Published
    <2>3. IsFiniteSet(cmd[p].doc) /\ Valid(cmd[p].doc)
      BY <1>2, <2>1, WithEntryFinite, WithoutBackendKeeps DEF Published, PreparedInv, Prepared
    <2>4. \A e \in store' : e.token \in published' BY <1>2 DEF Published
    <2> QED BY <2>2, <2>3, <2>4 DEF StoreInv
  <1> QED BY <1>1, <1>2, StoreMoves

(* Between reading and renaming nobody else can rename: the lock is held. *)
LEMMA PreparedStep ==
    ASSUME TInv, LockInv, PreparedInv, [Next]_vars PROVE PreparedInv'
  <1> SUFFICES ASSUME NEW q \in Commands, cmd'[q].pc \in {"output", "temp", "rename"} PROVE Prepared(cmd[q])'
    BY DEF PreparedInv, Prepared
  <1>k. ASSUME store' = store, cmd[q].pc \in {"output", "temp", "rename"}, SameRun(cmd'[q], cmd[q])
        PROVE  Prepared(cmd[q])'
    BY <1>k DEF PreparedInv, Prepared, SameRun, NewEntry
  <1>0. ASSUME cmd'[q] = cmd[q] PROVE Prepared(cmd[q])'
    <2>1. CASE store' = store BY <1>0, <1>k, <2>1 DEF SameRun
    <2>2. ASSUME NEW p \in Commands, Published(p) PROVE Prepared(cmd[q])'
      <3>1. cmd[p].pc = "rename" /\ cmd'[p].pc = "unlock" BY <2>2 DEF Published
      <3>2. lock = p /\ lock = q BY <1>0, <3>1 DEF LockInv, Locked
      <3> QED BY <1>0, <3>1, <3>2
    <2> QED BY <2>1, <2>2, StoreMoves
  <1>1. ASSUME StepOf(q) PROVE Prepared(cmd[q])'
    <2>1. Reads(q) \/ GoesOn(q) \/ Outside(q) BY <1>1, StepMoves
    <2>2. CASE Reads(q)
      <3>1. store' = store BY <2>2 DEF Reads, files
      <3> QED BY <2>2, <3>1 DEF Reads, Drawn, Prepared
    <2>3. CASE GoesOn(q)
      <3>1. cmd[q].pc \in {"output", "temp"} /\ store' = store /\ SameRun(cmd'[q], cmd[q])
        BY <2>3 DEF GoesOn, CreateOutput, files
      <3> QED BY <1>k, <3>1
    <2>4. CASE Outside(q) BY <2>4 DEF Outside
    <2> QED BY <2>1, <2>2, <2>3, <2>4
  <1>2. ASSUME NEW p \in Commands, StepOf(p), p # q PROVE Prepared(cmd[q])'
    BY <1>0, <1>2, StepMoves DEF Others
  <1>3. CASE cmd' = cmd BY <1>0, <1>3
  <1> QED BY <1>1, <1>2, <1>3, StepCases DEF ClearLock, Discard, history

(* A rename enrolls one client with a token that was in no document yet, or *)
(* revokes one; it does nothing else to the entries in force.               *)
Enrolled(p) ==
    /\ cmd[p].kind = "enroll" /\ cmd[p].client \in Clients /\ cmd[p].token \in Tokens
    /\ Active(store)' = Active(store) \cup {NewEntry(cmd[p])}
    /\ published' = published \cup {cmd[p].token}
    /\ \A e \in Active(store) : e.client # cmd[p].client

Disabled(p) ==
    /\ cmd[p].kind = "revoke" /\ cmd[p].client \in Clients
    /\ Active(store)' = {e \in Active(store) : e.client # cmd[p].client}
    /\ published' = published

LEMMA ActiveMoves ==
    ASSUME TInv, StoreInv, PreparedInv, NEW p \in Commands, Published(p)
    PROVE  Enrolled(p) \/ Disabled(p)
  <1>t. GoodCommand(cmd[p]) /\ store \in Docs BY DEF TInv, TypeOK, Locals
  <1>s. store' = cmd[p].doc /\ published' = published \cup {e.token : e \in cmd[p].doc} /\ cmd[p].pc = "rename"
    BY DEF Published
  <1>p. \A e \in store : e.token \in published BY DEF StoreInv
  <1>1. CASE cmd[p].kind = "enroll"
    <2> DEFINE new == NewEntry(cmd[p])
               kept == {e \in store : e.client # cmd[p].client}
    <2>1. /\ cmd[p].doc = kept \cup {new}
          /\ \A e \in Active(store) : e.client # cmd[p].client
      BY <1>1, <1>s DEF PreparedInv, Prepared, WithEntry, NewEntry
    <2>2. cmd[p].token \in Tokens /\ cmd[p].backend \in Sessions /\ cmd[p].client \in Clients
      BY <1>1, <1>s, <1>t DEF GoodCommand, Enrolling
    <2>3. new.token = cmd[p].token /\ new.backend # None BY <2>2, StoreAssumption DEF NewEntry
    <2> HIDE DEF new
    <2>4. Active(store)' = Active(store) \cup {new} BY <1>s, <2>1, <2>3 DEF Active
    <2>5. published' = published \cup {cmd[p].token} BY <1>s, <1>p, <2>1, <2>3
    <2> QED BY <1>1, <2>1, <2>2, <2>4, <2>5 DEF Enrolled, new
  <1>2. CASE cmd[p].kind = "revoke"
    <2>1. cmd[p].doc = WithoutBackend(store, cmd[p].client) BY <1>2, <1>s DEF PreparedInv, Prepared
    <2>2. /\ cmd[p].doc = {Cleared(e, cmd[p].client) : e \in store}
          /\ Active(cmd[p].doc) = {e \in Active(store) : e.client # cmd[p].client}
      BY <1>t, <2>1, WithoutBackendKeeps DEF StoreInv
    <2>3. \A e \in store : Cleared(e, cmd[p].client).token \in published
      BY <1>t, <1>p, ClearedFields DEF Docs
    <2>4. published' = published BY <1>s, <2>2, <2>3
    <2>5. Active(store)' = Active(cmd[p].doc) BY <1>s DEF Active
    <2> QED BY <1>2, <1>s, <1>t, <2>2, <2>4, <2>5 DEF Disabled, GoodCommand
  <1> QED BY <1>1, <1>2, <1>s, <1>t DEF GoodCommand

-----------------------------------------------------------------------------
(* Tokens and output files *)

(* What a command's token is in, as TokenInv states it. *)
Holds(p) ==
    /\ Enrolling(cmd[p]) => cmd[p].token \notin published \cup orphans
    /\ cmd[p].pc = "output" => \A o \in Outputs : out[o] # cmd[p].token
    /\ cmd[p].pc # "output" /\ Enrolling(cmd[p]) =>
         \A o \in Outputs : out[o] = cmd[p].token <=> o = cmd[p].output
    /\ cmd[p].pc = "unlock" /\ cmd[p].token # None =>
         cmd[p].token \in published \/ \A o \in Outputs : out[o] # cmd[p].token

DistinctTokens == \A p, q \in Commands : cmd[p].token = cmd[q].token => p = q \/ cmd[p].token = None

LEMMA DistinctStep ==
    ASSUME TInv, DistinctTokens, [Next]_vars PROVE DistinctTokens'
  <1>1. ASSUME NEW p \in Commands, StepOf(p) PROVE DistinctTokens'
    <2>1. Others(p) /\ (Reads(p) \/ GoesOn(p) \/ Outside(p)) BY <1>1, StepMoves
    <2>2. CASE cmd'[p].token \in {cmd[p].token, None} BY <2>1, <2>2 DEF DistinctTokens, Others
    <2>3. ASSUME NEW t, t \notin {cmd[q].token : q \in Commands}, cmd'[p].token = t PROVE DistinctTokens'
      BY <2>1, <2>3 DEF DistinctTokens, Others
    <2> QED BY <2>1, <2>2, <2>3 DEF Reads, GoesOn, Outside, Drawn, SameRun
  <1> QED BY <1>1, StepCases DEF DistinctTokens, ClearLock, Discard

LEMMA HoldsOwn ==
    ASSUME TInv, LockInv, StoreInv, PreparedInv, DistinctTokens, OutInv, NEW p \in Commands, Holds(p), StepOf(p)
    PROVE  Holds(p)'
  <1>t. GoodCommand(cmd[p]) /\ out \in [Outputs -> Tokens \cup {None}] /\ None \notin Tokens
    BY StoreAssumption DEF TInv, TypeOK, Locals
  <1>m. Reads(p) \/ GoesOn(p) \/ Outside(p) BY StepMoves
  <1>1. CASE Reads(p)
    <2>1. out' = out /\ published' = published /\ orphans' = orphans BY <1>1 DEF Reads, files, history
    <2>2. ASSUME NEW t \in Tokens \ (published \cup orphans \cup {cmd[q].token : q \in Commands}), Drawn(p, t)
          PROVE  Holds(p)'
      <3>1. \A o \in Outputs : out[o] # t BY <1>t, <2>2 DEF OutInv
      <3> QED BY <2>1, <2>2, <3>1 DEF Drawn, Holds
    <2>3. CASE cmd'[p].kind = "revoke" /\ cmd'[p].pc = "temp" BY <2>3 DEF Holds, Enrolling
    <2> QED BY <1>1, <2>2, <2>3 DEF Reads
  <1>2. CASE GoesOn(p)
    <2>s. SameRun(cmd'[p], cmd[p]) BY <1>2 DEF GoesOn
    <2>1. CASE cmd[p].pc \in {"lock", "read"}
      <3>1. cmd[p].token = None /\ cmd'[p].pc \in {"read", "unlock"} BY <1>2, <1>t, <2>1 DEF GoesOn, GoodCommand
      <3> QED BY <2>s, <3>1 DEF SameRun, Holds, Enrolling
    <2>2. CASE cmd[p].pc = "output"
      <3>1. CreateOutput(p) /\ cmd'[p].pc \in {"temp", "undo", "unlock"} BY <1>2, <2>2 DEF GoesOn
      <3>2. cmd[p].kind = "enroll" /\ cmd[p].token \in Tokens /\ cmd[p].output \in Outputs
        BY <1>t, <2>2 DEF GoodCommand, Enrolling
      <3>3. cmd[p].token \notin published \cup orphans /\ \A o \in Outputs : out[o] # cmd[p].token
        BY <2>2, <3>2 DEF Holds, Enrolling
      <3>4. published' = published /\ orphans' = orphans BY <3>1 DEF CreateOutput, history
      <3>5. CASE Goto(p, "unlock") /\ out' = out
        <4>1. cmd'[p].pc = "unlock" BY <3>5, GotoMoves DEF TInv, PCs, Locked
        <4> QED BY <2>s, <3>3, <3>5, <4>1 DEF Holds, SameRun, Enrolling
      <3>6. ASSUME out' = [out EXCEPT ![cmd[p].output] = cmd[p].token], NEW pc \in {"temp", "undo"}, Goto(p, pc)
            PROVE  Holds(p)'
        <4>1. cmd'[p].pc = pc BY <3>6, GotoMoves DEF TInv, PCs, Locked
        <4>2. \A o \in Outputs : out'[o] = cmd[p].token <=> o = cmd[p].output BY <1>t, <3>3, <3>6
        <4> QED BY <2>s, <3>3, <3>4, <3>6, <4>1, <4>2 DEF Holds, SameRun, Enrolling
      <3> QED BY <3>1, <3>5, <3>6 DEF CreateOutput
    <2>3. CASE cmd[p].pc \in {"temp", "rename"} /\ ~Published(p)
      <3>0. UNCHANGED <<files, history>> BY <1>2, <2>3, StepMoves DEF GoesOn, Published
      <3>1. \/ cmd'[p].pc \in {"rename", "undo"}
            \/ cmd'[p].pc = "unlock" /\ cmd[p].kind # "enroll"
        BY <1>2, <2>3, StepMoves DEF GoesOn, Published
      <3>2. cmd[p].kind # "enroll" => cmd[p].token = None BY <1>t, <2>3 DEF GoodCommand
      <3> QED BY <2>s, <2>3, <3>0, <3>1, <3>2 DEF Holds, SameRun, Enrolling, files, history
    <2>4. CASE Published(p)
      <3>1. Enrolled(p) \/ Disabled(p) BY <2>4, ActiveMoves
      <3>2. cmd'[p].pc = "unlock" /\ cmd'[p].token = cmd[p].token BY <2>4 DEF Published, SameRun
      <3>3. cmd[p].kind = "revoke" => cmd[p].token = None BY <1>t, <2>4 DEF GoodCommand, Published
      <3> QED BY <3>1, <3>2, <3>3 DEF Enrolled, Disabled, Holds, Enrolling
    <2>5. CASE cmd[p].pc = "undo"
      <3>1. Undo(p) /\ cmd'[p].pc = "unlock" BY <1>2, <2>5 DEF GoesOn
      <3>2. cmd[p].token \in Tokens /\ cmd[p].kind = "enroll" BY <1>t, <2>5 DEF GoodCommand, Enrolling
      <3>3. \A o \in Outputs : out[o] = cmd[p].token <=> o = cmd[p].output BY <2>5, <3>2 DEF Holds, Enrolling
      <3>4. \A o \in Outputs : out'[o] # cmd[p].token BY <1>t, <3>1, <3>2, <3>3 DEF Undo
      <3> QED BY <2>s, <3>1, <3>4 DEF Holds, SameRun, Enrolling
    <2>6. cmd[p].pc \in {"lock", "read", "output", "temp", "rename", "undo"} BY <1>2 DEF GoesOn
    <2> QED BY <2>1, <2>2, <2>3, <2>4, <2>5, <2>6
  <1>3. CASE Outside(p) BY <1>3 DEF Outside, Holds, Enrolling
  <1> QED BY <1>m, <1>1, <1>2, <1>3

LEMMA HoldsOther ==
    ASSUME TInv, LockInv, DistinctTokens, NEW p \in Commands, NEW q \in Commands, p # q, Holds(q), StepOf(p)
    PROVE  Holds(q)'
  <1>t. TypeOK /\ GoodCommand(cmd[q]) /\ None \notin Tokens BY StoreAssumption DEF TInv, Locals
  <1>m. cmd'[q] = cmd[q] /\ (Reads(p) \/ GoesOn(p) \/ Outside(p)) BY StepMoves DEF Others
  <1>1. CASE cmd[q].pc \notin Locked BY <1>1, <1>m DEF Holds, Enrolling, Locked
  <1>2. CASE cmd[q].pc \in Locked
    <2>1. cmd[p].pc \notin Locked BY <1>2 DEF LockInv
    <2>2. CASE UNCHANGED <<out, published, orphans>> BY <1>m, <2>2 DEF Holds
    <2>3. CASE Crash(p)
      <3>1. orphans' = orphans \cup ({cmd[p].token} \ (published \cup {None})) /\ UNCHANGED <<out, published>>
        BY <2>3 DEF Crash, files
      <3>2. Enrolling(cmd[q]) => cmd[q].token # cmd[p].token BY <1>t DEF DistinctTokens, GoodCommand
      <3> QED BY <1>m, <3>1, <3>2 DEF Holds
    <2> QED BY <1>m, <2>1, <2>2, <2>3
            DEF Reads, GoesOn, Outside, Locked, Lock, Unlock, At, files, history
  <1> QED BY <1>1, <1>2

LEMMA TokenStep ==
    ASSUME TInv, LockInv, StoreInv, PreparedInv, TokenInv, OutInv, [Next]_vars PROVE TokenInv'
  <1>1. DistinctTokens /\ \A p \in Commands : Holds(p) BY DEF TokenInv, DistinctTokens, Holds
  <1>2. DistinctTokens' BY <1>1, DistinctStep
  <1>3. ASSUME NEW q \in Commands PROVE Holds(q)'
    <2>1. ASSUME NEW p \in Commands, StepOf(p) PROVE Holds(q)' BY <1>1, <2>1, HoldsOwn, HoldsOther
    <2>2. CASE ClearLock BY <1>1, <2>2 DEF ClearLock, Holds
    <2>3. ASSUME NEW o \in Outputs, Discard(o) PROVE Holds(q)'
      BY <2>3 DEF Discard, NoneRuns, At, Holds, Enrolling
    <2>4. CASE UNCHANGED <<files, cmd, history>> BY <1>1, <2>4 DEF Holds, files, history
    <2> QED BY <2>1, <2>2, <2>3, <2>4, StepCases
  <1> QED BY <1>2, <1>3 DEF TokenInv, DistinctTokens, Holds

(* The witness of an output file's token stays, or the token is history. *)
Accounted(o) ==
    \/ out[o] \in published \cup orphans
    \/ \E p \in Commands : cmd[p].output = o /\ cmd[p].token = out[o]

LEMMA AccountedStep ==
    ASSUME TInv, TokenInv, NEW p \in Commands, StepOf(p), NEW o \in Outputs, Accounted(o), out[o] # None,
           out'[o] = out[o]
    PROVE  Accounted(o)'
  <1>m. Others(p) /\ (Reads(p) \/ GoesOn(p) \/ Outside(p)) BY StepMoves
  <1>t. GoodCommand(cmd[p]) BY DEF TInv, Locals
  <1>h. published \cup orphans \subseteq published' \cup orphans'
    BY <1>m DEF Reads, GoesOn, Outside, Lock, CreateOutput, Undo, Unlock, Crash, files, history
  <1>1. CASE out[o] \in published \cup orphans BY <1>1, <1>h DEF Accounted
  <1>2. ASSUME NEW q \in Commands, q # p, cmd[q].output = o, cmd[q].token = out[o] PROVE Accounted(o)'
    BY <1>2, <1>m DEF Accounted, Others
  <1>3. CASE cmd[p].output = o /\ cmd[p].token = out[o]
    <2>1. CASE Reads(p)
      <3>1. cmd[p].token = None BY <1>t, <2>1 DEF Reads, GoodCommand
      <3> QED BY <1>3, <3>1
    <2>2. CASE GoesOn(p) BY <1>3, <2>2 DEF GoesOn, SameRun, Accounted
    <2>3. CASE Unlock(p)
      <3>1. cmd[p].token \in published BY <1>3, <2>3 DEF TokenInv, Unlock, At
      <3> QED BY <1>3, <1>h, <3>1 DEF Accounted
    <2>4. CASE Crash(p)
      <3>1. orphans' = orphans \cup ({cmd[p].token} \ (published \cup {None})) /\ published' = published
        BY <2>4 DEF Crash
      <3> QED BY <1>3, <3>1 DEF Accounted
    <2>5. CASE cmd[p].pc \in {"idle", "verify", "lock"}
      <3>1. cmd[p].token = None BY <1>t, <2>5 DEF GoodCommand
      <3> QED BY <1>3, <3>1
    <2> QED BY <1>m, <2>1, <2>2, <2>3, <2>4, <2>5 DEF Outside
  <1> QED BY <1>1, <1>2, <1>3 DEF Accounted

InForceIsOut == \A e \in Active(store) : \E o \in Outputs : out[o] = e.token

LEMMA OutStep ==
    ASSUME TInv, LockInv, StoreInv, PreparedInv, TokenInv, OutInv, [Next]_vars PROVE OutInv'
  <1>t. /\ out \in [Outputs -> Tokens \cup {None}] /\ None \notin Tokens
        /\ \A e \in store : e.token \in Tokens /\ e.token \in published
    BY StoreAssumption DEF TInv, TypeOK, StoreInv, Docs, Entries
  <1>i. InForceIsOut /\ \A o \in Outputs : out[o] # None => Accounted(o) BY DEF OutInv, InForceIsOut, Accounted
  <1>1. ASSUME NEW p \in Commands, StepOf(p) PROVE OutInv'
    <2>m. Others(p) /\ (Reads(p) \/ GoesOn(p) \/ Outside(p)) BY <1>1, StepMoves
    <2>g. GoodCommand(cmd[p]) BY DEF TInv, Locals
    <2>1. CASE Published(p)
      <3>o. out' = out BY <2>1 DEF Published
      <3>1. Enrolled(p) \/ Disabled(p) BY <2>1, ActiveMoves
      <3>2. CASE Enrolled(p)
        <4>1. cmd[p].output \in Outputs /\ out[cmd[p].output] = cmd[p].token
          BY <2>g, <2>1, <3>2 DEF GoodCommand, Enrolled, Published, TokenInv, Enrolling
        <4>2. NewEntry(cmd[p]).token = cmd[p].token BY DEF NewEntry
        <4>3. InForceIsOut' BY <1>i, <3>o, <3>2, <4>1, <4>2 DEF InForceIsOut, Enrolled
        <4> QED BY <1>1, <1>i, <3>o, <4>3, AccountedStep DEF OutInv, InForceIsOut, Accounted
      <3>3. CASE Disabled(p)
        <4>1. InForceIsOut' BY <1>i, <3>o, <3>3 DEF InForceIsOut, Disabled
        <4> QED BY <1>1, <1>i, <3>o, <4>1, AccountedStep DEF OutInv, InForceIsOut, Accounted
      <3> QED BY <3>1, <3>2, <3>3
    <2>2. CASE out' = out /\ store' = store
      BY <1>1, <1>i, <2>2, AccountedStep DEF OutInv, InForceIsOut, Accounted, Active
    <2>3. CASE CreateOutput(p) /\ out' # out
      <3>1. /\ out[cmd[p].output] = None /\ out' = [out EXCEPT ![cmd[p].output] = cmd[p].token] /\ store' = store
            /\ \E pc \in {"temp", "undo"} : Goto(p, pc)
        BY <2>3 DEF CreateOutput
      <3>2. SameRun(cmd'[p], cmd[p]) BY <3>1, GotoMoves DEF TInv, PCs, Locked
      <3>3. \A e \in Active(store) : e.token # None BY <1>t DEF Active
      <3>4. InForceIsOut' BY <1>t, <1>i, <3>1, <3>3 DEF InForceIsOut, Active
      <3>5. ASSUME NEW o \in Outputs, out'[o] # None PROVE Accounted(o)'
        <4>1. CASE o = cmd[p].output BY <1>t, <3>1, <3>2, <4>1 DEF Accounted, SameRun
        <4>2. CASE o # cmd[p].output BY <1>1, <1>t, <1>i, <3>1, <3>5, <4>2, AccountedStep
        <4> QED BY <4>1, <4>2
      <3> QED BY <3>4, <3>5 DEF OutInv, InForceIsOut, Accounted
    <2>4. CASE Undo(p)
      <3>1. out' = [out EXCEPT ![cmd[p].output] = None] /\ store' = store /\ cmd[p].pc = "undo" BY <2>4 DEF Undo, At
      <3>2. Enrolling(cmd[p]) /\ cmd[p].output \in Outputs BY <2>g, <3>1 DEF GoodCommand, Enrolling
      <3>3. out[cmd[p].output] \notin published BY <3>1, <3>2 DEF TokenInv
      <3>4. InForceIsOut' BY <1>t, <1>i, <3>1, <3>3 DEF InForceIsOut, Active
      <3>5. ASSUME NEW o \in Outputs, out'[o] # None PROVE Accounted(o)'
        <4>1. o # cmd[p].output /\ out'[o] = out[o] BY <1>t, <3>1, <3>5
        <4> QED BY <1>1, <1>i, <3>5, <4>1, AccountedStep
      <3> QED BY <3>4, <3>5 DEF OutInv, InForceIsOut, Accounted
    <2> QED BY <2>m, <2>1, <2>2, <2>3, <2>4
            DEF Reads, GoesOn, Outside, Lock, CreateOutput, Unlock, Crash, Published, files, history
  <1>2. CASE ClearLock BY <1>2 DEF ClearLock, OutInv, Active
  <1>3. ASSUME NEW o \in Outputs, Discard(o) PROVE OutInv'
    <2>1. /\ store' = store /\ UNCHANGED <<published, orphans, cmd>>
          /\ out' = [out EXCEPT ![o] = None] /\ \A e \in Active(store) : e.token # out[o]
      BY <1>3 DEF Discard, history
    <2>2. InForceIsOut' BY <1>t, <1>i, <2>1 DEF InForceIsOut, Active
    <2>3. \A x \in Outputs : out'[x] # None => out'[x] = out[x] BY <1>t, <2>1
    <2>4. \A x \in Outputs : out'[x] # None => Accounted(x)' BY <1>i, <2>1, <2>3 DEF Accounted
    <2> QED BY <2>2, <2>4 DEF OutInv, InForceIsOut, Accounted
  <1>4. CASE UNCHANGED <<files, cmd, history>> BY <1>4 DEF OutInv, Active, files, history
  <1> QED BY <1>1, <1>2, <1>3, <1>4, StepCases

-----------------------------------------------------------------------------
(* Requests *)

(* A revoked token stays revoked: an enrollment brings one of its own. *)
LEMMA RevokedStays ==
    ASSUME TInv, StoreInv, PreparedInv, TokenInv, [Next]_vars, NEW t, Revoked(t) PROVE Revoked(t)'
  <1>1. CASE UNCHANGED <<store, published>> BY <1>1 DEF Revoked, Active
  <1>2. ASSUME NEW p \in Commands, Published(p) PROVE Revoked(t)'
    <2>1. Enrolled(p) \/ Disabled(p) BY <1>2, ActiveMoves
    <2>2. CASE Disabled(p) BY <2>2 DEF Disabled, Revoked
    <2>3. CASE Enrolled(p)
      <3>1. cmd[p].token \notin published BY <1>2, <2>3 DEF Published, Enrolled, TokenInv, Enrolling
      <3>2. NewEntry(cmd[p]).token = cmd[p].token BY DEF NewEntry
      <3> QED BY <2>3, <3>1, <3>2 DEF Enrolled, Revoked
    <2> QED BY <2>1, <2>2, <2>3
  <1> QED BY <1>1, <1>2, StoreMoves

LEMMA RequestMoves ==
    ASSUME TInv, [Next]_vars, NEW r \in Readers
    PROVE  \/ Reader(r)
           \/ /\ req'[r].pc = req[r].pc /\ req'[r].token = req[r].token
              /\ req'[r].late = req[r].late /\ req'[r].entry = req[r].entry
  <1>t. req \in [Readers -> Requests] BY DEF TInv, TypeOK, Requests
  <1>1. ASSUME NEW x \in Readers, x # r, Reader(x) PROVE req'[r] = req[r]
    BY <1>t, <1>1 DEF Reader, Arrive, Open, BackendReply, Answered, Refuse
  <1>2. ASSUME NEW p \in Commands, Rename(p)
        PROVE  req'[r] = req[r] \/ req'[r] = [req[r] EXCEPT !.same = FALSE]
    BY <1>t, <1>2 DEF Rename
  <1>3. LET d == [req[r] EXCEPT !.same = FALSE]
        IN  d.pc = req[r].pc /\ d.token = req[r].token /\ d.late = req[r].late /\ d.entry = req[r].entry
    BY <1>t DEF Requests
  <1>4. CASE \E p \in Commands : Rename(p) BY <1>2, <1>3, <1>4
  <1>5. CASE \E x \in Readers : Reader(x) BY <1>1, <1>5
  <1>6. CASE req' = req BY <1>6
  <1> QED BY <1>4, <1>5, <1>6, NextCases
          DEF BeginEnroll, BeginRevoke, Verified, Lock, ReadForEnroll, ReadForRevoke, CreateOutput, WriteTemp,
              Undo, Unlock, Crash, ClearLock, Discard, SessionChanges, vars

LEMMA ReaderStep ==
    ASSUME TInv, StoreInv, PreparedInv, TokenInv, ReaderInv, [Next]_vars PROVE ReaderInv'
  <1>t. req \in [Readers -> Requests] /\ store \subseteq Entries BY DEF TInv, TypeOK, Requests, Docs
  <1> DEFINE Fine(r) == /\ req[r].pc = "stat" /\ req[r].late => Revoked(req[r].token)
                        /\ req[r].pc \in {"verify", "accepted"} => ~req[r].late /\ req[r].entry \in Entries
  <1> SUFFICES ASSUME NEW r \in Readers PROVE Fine(r)' BY DEF ReaderInv
  <1>f. Fine(r) BY DEF ReaderInv
  <1>0. CASE ~Reader(r)
    <2>1. /\ req'[r].pc = req[r].pc /\ req'[r].token = req[r].token
          /\ req'[r].late = req[r].late /\ req'[r].entry = req[r].entry BY <1>0, RequestMoves
    <2>2. \A t : Revoked(t) => Revoked(t)' BY RevokedStays
    <2> QED BY <1>f, <2>1, <2>2 DEF Revoked, Active
  <1>1. ASSUME NEW t \in Tokens, Arrive(r, t) PROVE Fine(r)'
    <2> DEFINE d == [Quiet EXCEPT !.pc = "stat", !.token = t, !.late = Revoked(t)]
    <2>1. d.pc = "stat" /\ d.token = t /\ d.late = Revoked(t) BY DEF Quiet
    <2>2. req' = [req EXCEPT ![r] = d] /\ UNCHANGED <<store, published>> BY <1>1 DEF Arrive, files, history
    <2> HIDE DEF d
    <2>3. req'[r] = d /\ (Revoked(t)' <=> Revoked(t)) BY <1>t, <2>2 DEF Revoked, Active
    <2> QED BY <2>1, <2>3 DEF Revoked, Active
  <1>2. CASE Refuse(r)
    <2>1. req'[r] = Quiet BY <1>t, <1>2 DEF Refuse
    <2> QED BY <2>1 DEF Quiet
  <1>3. ASSUME req[r].pc = "stat", NEW e \in Matched(r), req' = [req EXCEPT ![r].pc = "verify", ![r].entry = e]
        PROVE  Fine(r)'
    <2>1. e \in Entries /\ e \in Active(store) /\ e.token = req[r].token BY <1>t, <1>3 DEF Matched, Active
    <2>2. ~Revoked(req[r].token) BY <2>1 DEF Revoked
    <2>3. ~req[r].late BY <1>f, <1>3, <2>2
    <2>4. req'[r].pc = "verify" /\ req'[r].entry = e /\ req'[r].late = req[r].late BY <1>t, <1>3 DEF Requests
    <2> QED BY <2>1, <2>3, <2>4
  <1>4. CASE req[r].pc = "verify" /\ req' = [req EXCEPT ![r].pc = "accepted"]
    <2>1. req'[r].pc = "accepted" /\ req'[r].entry = req[r].entry /\ req'[r].late = req[r].late
      BY <1>t, <1>4 DEF Requests
    <2> QED BY <1>f, <1>4, <2>1
  <1> QED BY <1>0, <1>1, <1>2, <1>3, <1>4 DEF Reader, Open, BackendReply, Answered

-----------------------------------------------------------------------------
(* The theorems *)

LEMMA Start == Init => IInv
  <1> SUFFICES ASSUME Init PROVE IInv OBVIOUS
  <1>1. TInv BY TypeInit
  <1>2. StoreInv BY FS_EmptySet, StoreAssumption DEF Init, StoreInv, Valid
  <1>3. LockInv BY DEF Init, LockInv, Idle, Locked
  <1>4. PreparedInv BY DEF Init, PreparedInv, Prepared, Idle
  <1>5. TokenInv BY DEF Init, TokenInv, Enrolling, Idle
  <1>6. OutInv BY DEF Init, OutInv, Active
  <1>7. ReaderInv BY DEF Init, ReaderInv, Quiet
  <1> QED BY <1>1, <1>2, <1>3, <1>4, <1>5, <1>6, <1>7 DEF IInv, TInv

LEMMA Step == IInv /\ [Next]_vars => IInv'
  BY TypeStep, LockStep, StoreStep, PreparedStep, TokenStep, OutStep, ReaderStep DEF IInv, TInv

THEOREM Invariance == Spec => []IInv
  BY Start, Step, PTL DEF Spec

(* Wherever commands are killed, the lock file says who is inside; output    *)
(* files and credentials in force account for each other.                    *)
THEOREM FilesAlwaysAccounted == Spec => []FilesAccounted
  <1>1. IInv => FilesAccounted BY DEF IInv, LockInv, OutInv, FilesAccounted
  <1> QED BY <1>1, Invariance, PTL

(* A request that arrives after its token was revoked is never accepted. *)
THEOREM RevocationAlwaysHolds == Spec => []RevocationHolds
  <1>1. IInv => RevocationHolds BY DEF IInv, ReaderInv, RevocationHolds
  <1> QED BY <1>1, Invariance, PTL

-----------------------------------------------------------------------------
(* A full store leaves its clients a way on *)

LEMMA ValidServes ==
    ASSUME store \in Docs, IsFiniteSet(store), Valid(store) PROVE FullStoreServes
  <1>e. \A e \in store : e \in Entries BY DEF Docs
  <1>n. None \notin Tokens /\ None \notin Sessions /\ MaxEntries \in Nat BY StoreAssumption
  <1> SUFFICES ASSUME NEW e \in store
               PROVE  IF e \in Active(store)
                      THEN Valid(WithoutBackend(store, e.client))
                      ELSE \A s \in Sessions, u \in Users :
                             (\A d \in Active(store) : d.backend = s => d.user = u) =>
                               Valid(WithEntry(store, [client |-> e.client, user |-> u, token |-> None, backend |-> s]))
    BY DEF FullStoreServes
  <1>1. Valid(WithoutBackend(store, e.client)) BY WithoutBackendKeeps
  <1>2. ASSUME NEW s \in Sessions, NEW u \in Users, \A d \in Active(store) : d.backend = s => d.user = u
        PROVE  Valid(WithEntry(store, [client |-> e.client, user |-> u, token |-> None, backend |-> s]))
    <2> DEFINE new == [client |-> e.client, user |-> u, token |-> None, backend |-> s]
               kept == store \ {e}
    <2>1. new.client = e.client /\ new.user = u /\ new.token = None /\ new.backend = s OBVIOUS
    <2> HIDE DEF new
    <2>2. {d \in store : d.client # new.client} = kept BY <2>1 DEF Valid
    <2>3. WithEntry(store, new) = kept \cup {new} BY <2>2 DEF WithEntry
    <2>4. new \notin kept BY <1>e, <1>n, <2>1 DEF Entries
    <2>5. IsFiniteSet(kept) /\ Cardinality(kept) = Cardinality(store) - 1 BY FS_RemoveElement
    <2>6. Cardinality(kept \cup {new}) = Cardinality(kept) + 1 BY <2>4, <2>5, FS_AddElement
    <2>7. Cardinality(store) \in Nat BY FS_CardinalityType
    <2>8. Cardinality(kept \cup {new}) <= MaxEntries BY <1>n, <2>5, <2>6, <2>7 DEF Valid
    <2>9. \A d \in kept : /\ d.client # new.client /\ d.token # new.token
                          /\ d.backend = new.backend => d.user = new.user
      BY <1>e, <1>n, <1>2, <2>1, <2>2 DEF Entries, Active
    <2>10. \A d, f \in kept : /\ d.token = f.token \/ d.client = f.client => d = f
                              /\ d.backend = f.backend /\ d.backend # None => d.user = f.user
      BY DEF Valid
    <2> HIDE DEF kept
    <2>11. Valid(kept \cup {new}) BY <2>8, <2>9, <2>10 DEF Valid
    <2> QED BY <2>3, <2>11 DEF new
  <1> QED BY <1>1, <1>2

(* The document at path is always one that readDocument accepts, and each of *)
(* its clients can be revoked or enrolled again.                             *)
THEOREM StoreAlwaysReadable == Spec => []StoreReadable
  <1>1. IInv => StoreReadable BY ValidServes DEF IInv, TypeOK, StoreInv, StoreReadable
  <1> QED BY <1>1, Invariance, PTL

-----------------------------------------------------------------------------
(* The refinement *)

TokenIn(doc, c) ==
    IF \E e \in Active(doc) : e.client = c
    THEN (CHOOSE e \in Active(doc) : e.client = c).token
    ELSE None

(* A client has one entry in force at most, so the choice is no choice. *)
LEMMA OneInForce ==
    ASSUME NEW doc, Valid(doc), NEW c
    PROVE  /\ \A e \in Active(doc) : e.client = c => TokenIn(doc, c) = e.token
           /\ (\A e \in Active(doc) : e.client # c) => TokenIn(doc, c) = None
  <1>1. \A d, e \in Active(doc) : d.client = c /\ e.client = c => d = e BY DEF Valid, Active
  <1>2. ASSUME NEW e \in Active(doc), e.client = c PROVE TokenIn(doc, c) = e.token
    <2> DEFINE d == CHOOSE x \in Active(doc) : x.client = c
    <2>1. d \in Active(doc) /\ d.client = c BY <1>2
    <2>2. d = e BY <1>1, <1>2, <2>1
    <2> QED BY <1>2, <2>2 DEF TokenIn
  <1> QED BY <1>2 DEF TokenIn

InForce == [c \in Clients |-> ActiveToken(c)]

LEMMA RegistryStep ==
    ASSUME IInv, [Next]_vars PROVE [Registry!Next]_<<InForce, published>>
  <1>v. Valid(store) /\ Valid(store') BY Step DEF IInv, StoreInv
  <1>a. \A c : ActiveToken(c) = TokenIn(store, c) /\ ActiveToken(c)' = TokenIn(store', c)
    BY DEF ActiveToken, TokenIn, Active
  <1>s. Active(store)' = Active(store') BY DEF Active
  <1>1. CASE UNCHANGED <<store, published>>
    BY <1>1 DEF InForce, ActiveToken, Active
  <1>2. ASSUME NEW p \in Commands, Published(p) PROVE Registry!Next
    <2> DEFINE c == cmd[p].client
    <2>1. Enrolled(p) \/ Disabled(p) BY <1>2, ActiveMoves DEF IInv, TInv
    <2>2. c \in Clients BY <2>1 DEF Enrolled, Disabled
    <2>3. ASSUME NEW d \in Clients, d # c PROVE TokenIn(store', d) = TokenIn(store, d)
      <3>1. \A e \in Active(store) : e.client = d => e \in Active(store')
        BY <1>s, <2>1, <2>3 DEF Enrolled, Disabled
      <3>2. \A e \in Active(store') : e.client = d => e \in Active(store)
        BY <1>s, <2>1, <2>3 DEF Enrolled, Disabled, NewEntry
      <3> QED BY <1>v, <3>1, <3>2, OneInForce
    <2>4. CASE Enrolled(p)
      <3> DEFINE t == cmd[p].token
      <3>1. t \in Tokens /\ t \notin published
        BY <1>2, <2>4 DEF Enrolled, Published, IInv, TokenInv, Enrolling
      <3>2. TokenIn(store, c) = None BY <1>v, <2>4, OneInForce DEF Enrolled
      <3>3. NewEntry(cmd[p]).client = c /\ NewEntry(cmd[p]).token = t BY DEF NewEntry
      <3>4. NewEntry(cmd[p]) \in Active(store') BY <1>s, <2>4 DEF Enrolled
      <3>5. TokenIn(store', c) = t BY <1>v, <3>3, <3>4, OneInForce
      <3>6. published' = published \cup {t} BY <2>4 DEF Enrolled
      <3> HIDE DEF c, t
      <3>7. InForce' = [InForce EXCEPT ![c] = t] BY <1>a, <2>2, <2>3, <3>5 DEF InForce
      <3>8. InForce[c] = None BY <1>a, <2>2, <3>2 DEF InForce
      <3>9. Registry!Enroll(c, t) BY <3>1, <3>6, <3>7, <3>8 DEF Registry!Enroll, InForce
      <3> QED BY <2>2, <3>1, <3>9 DEF Registry!Next
    <2>5. CASE Disabled(p)
      <3>1. TokenIn(store', c) = None BY <1>s, <1>v, <2>5, OneInForce DEF Disabled
      <3> HIDE DEF c
      <3>2. InForce' = [InForce EXCEPT ![c] = None] BY <1>a, <2>2, <2>3, <3>1 DEF InForce
      <3>3. Registry!Revoke(c) BY <2>5, <3>2 DEF Registry!Revoke, InForce, Disabled
      <3> QED BY <2>2, <3>3 DEF Registry!Next
    <2> QED BY <2>1, <2>4, <2>5
  <1> QED BY <1>1, <1>2, StoreMoves DEF IInv, TInv

(* The commands, however they overlap and wherever they are killed, make of  *)
(* the store what one administrator makes of the registry, step by step.     *)
THEOREM RegistryImplemented == Spec => ImplementsRegistry
  <1>1. Init => Registry!Init BY DEF Init, Registry!Init, ActiveToken, Active
  <1>2. IInv /\ [Next]_vars => [Registry!Next]_<<InForce, published>> BY RegistryStep
  <1> QED BY <1>1, <1>2, Invariance, PTL DEF Spec, ImplementsRegistry, Registry!Spec, InForce
=============================================================================
