-------------------------------- MODULE Pairing --------------------------------
(***************************************************************************)
(* Pairing a device with a host: by a code that nexus-agent pair-mode      *)
(* shows (crates/agent/src/pairing.rs, crates/fs/src/pairing.rs), and by a *)
(* person's answer to a dialog of nexus-agent serve                        *)
(* (crates/agent/src/approval.rs).                                         *)
(*                                                                         *)
(* The two are processes of their own, over one peers.json, each with its  *)
(* copy of the peers in memory.  The handlers of a process run on several  *)
(* threads: what one does under a mutex is one step.  Each device has one  *)
(* request at a time.                                                      *)
(***************************************************************************)
EXTENDS RateLimiter

CONSTANTS
  Device,        \* who may ask to be paired
  Request,       \* what each may ask
  MaxGuesses,    \* wrong codes before the code is spent
  MaxAttempts,   \* attempts per address and window, by process
  CodeTimeout,   \* pair-mode's timeout_secs
  MaxNow,        \* bound on the clock
  Faults,        \* "kill", "cancel", "persist"
  NoFile, Torn,  \* of a file: it is not there, it cannot be parsed
  Nobody

Process == {"serve", "pair"}

ASSUME PairingAssumption ==
  /\ MaxGuesses \in Nat \ {0} /\ CodeTimeout \in Nat /\ MaxNow \in Nat
  /\ MaxAttempts \in [Process -> Nat \ {0}]
  /\ \A r \in Request : /\ r.from \in Device /\ r.to \in Process
                        /\ {r.approval, r.right, r.valid} \subseteq BOOLEAN
  /\ Nobody \notin Device

\* The certificates of the devices that are paired.
PeersFile == UNION {[ds -> {r.cert : r \in Request}] : ds \in SUBSET Device}

ASSUME FileAssumption == {NoFile, Torn} \cap PeersFile = {}

VARIABLES
  file,      \* peers.json: device -> certificate
  tmp,       \* peers.json.tmp
  up,        \* the processes that run
  mem,       \* PeersStore.inner, per process
  homeless,  \* the processes whose store is PeersStore::empty()
  writing,   \* the request that has the mutex of a process's PeersStore
  code,      \* PairingCode
  listening, \* the listener of pair-mode takes requests
  limiter,   \* rate_limiter, per process
  pending,   \* ApprovalServer.pending
  pc, req,   \* where each device's request stands, and the request
  reply,     \* accepted, rejected or an error
  trusted,   \* the devices with the host in their trusted-certs.json
  now,       \* the clock
  consents,  \* history: the devices a person or the right code let in
  promised,  \* history: the devices that were told they are paired
  spenders,  \* history: those that spent the code
  admitted,  \* history: when the limiters let a request in, and in which window
  overlapped \* history: both processes have run at once

files   == <<file, tmp>>
stores  == <<up, mem, homeless, writing>>
gates   == <<code, listening, limiter, pending>>
rpc     == <<pc, req, reply>>
history == <<consents, promised, spenders, admitted, overlapped>>
vars    == <<files, stores, gates, rpc, trusted, now, history>>

NoRequest == [from |-> Nobody, to |-> "none"]

NoCode == [made |-> 0, used |-> TRUE, failed |-> 0]

At(d, p, step) == pc[d] = step /\ req[d].to = p

InFlight(p) == {d \in Device : pc[d] \notin {"idle", "keep"} /\ req[d].to = p}

Goto(d, step) == pc' = [pc EXCEPT ![d] = step]

Answer(d, r) == Goto(d, "replied") /\ reply' = [reply EXCEPT ![d] = r]

-----------------------------------------------------------------------------
(* The processes.                                                           *)

\* PeersStore::open; serve goes on without the file if it cannot be parsed,
\* pair-mode does not.
OpenStore(p) ==
  /\ p \notin up /\ file = Torn => p = "serve"
  /\ up' = up \cup {p}
  /\ mem' = [mem EXCEPT ![p] = IF file \in {NoFile, Torn} THEN EmptyMap ELSE file]
  /\ homeless' = IF file = Torn THEN homeless \cup {p} ELSE homeless \ {p}
  /\ overlapped' = (overlapped \/ up # {})
  /\ limiter' = [limiter EXCEPT ![p] = NewLimiter]
  /\ admitted' = {a \in admitted : a.to # p}
  /\ UNCHANGED <<files, writing, rpc, trusted, now, consents, promised>>

Serve == OpenStore("serve") /\ UNCHANGED <<code, listening, pending, spenders>>

\* run_pairing_listener: one code for one run.
PairMode ==
  /\ OpenStore("pair")
  /\ code' = [made |-> now, used |-> FALSE, failed |-> 0]
  /\ listening' = TRUE /\ spenders' = {}
  /\ pending' = pending

CodeExpires ==
  /\ listening /\ now - code.made >= CodeTimeout
  /\ listening' = FALSE
  /\ UNCHANGED <<files, stores, code, limiter, pending, rpc, trusted, now, history>>

\* What a process leaves behind: the requests it had are over.
Down(p) ==
  /\ up' = up \ {p}
  /\ writing' = [writing EXCEPT ![p] = Nobody]
  /\ pc' = [d \in Device |-> IF d \in InFlight(p) THEN "idle" ELSE pc[d]]
  /\ req' = [d \in Device |-> IF d \in InFlight(p) THEN NoRequest ELSE req[d]]
  /\ pending' = (pending /\ p # "serve")
  /\ listening' = (listening /\ p # "pair")
  /\ UNCHANGED <<files, mem, homeless, code, limiter, reply, trusted, now, history>>

\* serve_with_shutdown ends once the requests it has are answered.
PairModeEnds == "pair" \in up /\ ~listening /\ InFlight("pair") = {} /\ Down("pair")

Kill(p) == "kill" \in Faults /\ p \in up /\ Down(p)

-----------------------------------------------------------------------------
(* A request arrives.                                                       *)

\* The address is the device's.  Attempts that are let in are remembered.
Ask(d, r) ==
  /\ pc[d] = "idle" /\ r.from = d /\ r.to \in up
  /\ r.to = "pair" => listening
  /\ req' = [req EXCEPT ![d] = r]
  /\ LET check == Check(limiter[r.to], d, now, MaxAttempts[r.to])
         refused == r.to = "serve" /\ ~r.approval
     IN IF refused
        THEN Answer(d, "rejected") /\ UNCHANGED <<limiter, admitted>>
        ELSE /\ limiter' = [limiter EXCEPT ![r.to] = check.limiter]
             /\ IF check.allowed
                THEN /\ Goto(d, IF r.to = "pair" THEN "verify" ELSE "claim")
                     /\ admitted' = admitted \cup {[to |-> r.to, ip |-> d, at |-> now,
                                       nth |-> check.limiter.attempts[d].count,
                                       first |-> check.limiter.attempts[d].first]}
                     /\ reply' = reply
                ELSE Answer(d, "rejected") /\ admitted' = admitted
  /\ UNCHANGED <<files, stores, code, listening, pending, trusted, now,
                 consents, promised, spenders, overlapped>>

-----------------------------------------------------------------------------
(* The code: PairingCode::verify.                                           *)

Reached(n) == n >= MaxGuesses

\* A wrong code is counted, under the lock of failed_attempts, ...
WrongCode(d) ==
  /\ At(d, "pair", "verify") /\ ~req[d].right
  /\ \A e \in Device : pc[e] # "exhaust"
  /\ code' = [code EXCEPT !.failed = @ + 1]
  /\ IF Reached(code.failed + 1) THEN Goto(d, "exhaust") /\ reply' = reply
     ELSE Answer(d, "rejected")
  /\ UNCHANGED <<files, stores, listening, limiter, pending, req, trusted, now, history>>

\* A bug: the code can be guessed at for as long as it is shown.
StillGood == code

Invalidated == [code EXCEPT !.used = TRUE]

\* ... and the last one spends the code, under the lock of used too.
Exhaust(d) ==
  /\ pc[d] = "exhaust"
  /\ code' = Invalidated
  /\ Answer(d, "rejected")
  /\ UNCHANGED <<files, stores, listening, limiter, pending, req, trusted, now, history>>

Expired == now - code.made > CodeTimeout

\* A bug: a code that was spent is good again.
Unspent == ~Expired

Usable == ~Expired /\ ~code.used

\* The right code lets one device in, if its id can be parsed.
RightCode(d) ==
  /\ At(d, "pair", "verify") /\ req[d].right
  /\ IF Usable
     THEN /\ code' = [code EXCEPT !.used = TRUE]
          /\ spenders' = spenders \cup {d}
          /\ IF req[d].valid
             THEN Goto(d, "add") /\ consents' = consents \cup {d} /\ reply' = reply
             ELSE Answer(d, "rejected") /\ consents' = consents
     ELSE Answer(d, "rejected") /\ UNCHANGED <<code, spenders, consents>>
  /\ UNCHANGED <<files, stores, listening, limiter, pending, req, trusted, now,
                 promised, admitted, overlapped>>

-----------------------------------------------------------------------------
(* The dialog: ApprovalServer::request_pair.                                *)

\* One at a time: the flag is tested and set in one step.
Claim(d) ==
  /\ pc[d] = "claim"
  /\ IF req[d].valid /\ ~pending
     THEN Goto(d, "dialog") /\ pending' = TRUE /\ reply' = reply
     ELSE Answer(d, "rejected") /\ pending' = pending
  /\ UNCHANGED <<files, stores, code, listening, limiter, req, trusted, now, history>>

Approve(d) ==
  /\ pc[d] = "dialog"
  /\ Goto(d, "add")
  /\ consents' = consents \cup {d}
  /\ UNCHANGED <<files, stores, gates, req, reply, trusted, now, promised, spenders,
                 admitted, overlapped>>

\* A bug: a request whose client has gone stays the pending one.
GuardForgotten == pending' = pending

DropGuard == pending' = FALSE

\* A bug: a dialog that nobody answers counts as a yes.
SilenceApproves(d) ==
  /\ pc[d] = "dialog"
  /\ Goto(d, "add")
  /\ UNCHANGED <<files, stores, gates, req, reply, trusted, now, history>>

\* The person says no, or nothing for as long as the dialog is there, or the
\* dialog cannot be shown.
Deny(d) ==
  /\ pc[d] = "dialog"
  /\ Answer(d, "rejected")
  /\ DropGuard
  /\ UNCHANGED <<files, stores, code, listening, limiter, req, trusted, now, history>>

\* The device goes away while the handler waits for the dialog.
Cancel(d) ==
  /\ "cancel" \in Faults /\ pc[d] = "dialog"
  /\ Goto(d, "idle")
  /\ DropGuard
  /\ UNCHANGED <<files, stores, code, listening, limiter, req, reply, trusted, now, history>>

-----------------------------------------------------------------------------
(* PeersStore::add, of either process.                                      *)

Add(d) ==
  LET p == req[d].to IN
  /\ pc[d] = "add" /\ writing[p] = Nobody
  /\ writing' = [writing EXCEPT ![p] = d]
  /\ mem' = [mem EXCEPT ![p] = With(@, d, req[d].cert)]
  /\ Goto(d, "write")
  /\ UNCHANGED <<files, up, homeless, gates, req, reply, trusted, now, history>>

\* persist_json: the temporary file, which both processes use, is written (half of
\* it, left by a kill, is only ever written over; that the other process renames
\* it while it is half written is left out) ...
WriteTmp(d) ==
  /\ pc[d] = "write" /\ req[d].to \notin homeless
  /\ tmp' = mem[req[d].to]
  /\ Goto(d, "rename")
  /\ UNCHANGED <<file, stores, gates, req, reply, trusted, now, history>>

\* ... and takes the place of the file.
RenameTmp(d) ==
  /\ pc[d] = "rename" /\ tmp # NoFile
  /\ file' = tmp /\ tmp' = NoFile
  /\ writing' = [writing EXCEPT ![req[d].to] = Nobody]
  /\ Goto(d, "added")
  /\ UNCHANGED <<up, mem, homeless, gates, req, reply, trusted, now, history>>

\* A bug: a failure leaves the mutex locked.
MutexKept(d) ==
  /\ Answer(d, "error")
  /\ pending' = (pending /\ req[d].to # "serve")
  /\ UNCHANGED <<files, stores, code, listening, limiter, req, trusted, now, history>>

\* The file cannot be written: the peer stays in memory.
NotPersisted(d) ==
  /\ writing' = [writing EXCEPT ![req[d].to] = Nobody]
  /\ Answer(d, "error")
  /\ pending' = (pending /\ req[d].to # "serve")
  /\ UNCHANGED <<files, up, mem, homeless, code, listening, limiter, req, trusted, now, history>>

\* There is no path, or the other process has renamed the temporary file.
NoPersist(d) ==
  /\ \/ pc[d] = "write" /\ req[d].to \in homeless
     \/ pc[d] = "rename" /\ tmp = NoFile
  /\ NotPersisted(d)

PersistFails(d) ==
  /\ "persist" \in Faults /\ pc[d] \in {"write", "rename"}
  /\ NotPersisted(d)

\* A bug: the device is told before it is in the file.
PersistedLater == "rename"

Persisted == "added"

\* pair-mode forgets the address's attempts and stops listening; serve is
\* ready for the next dialog.
Accept(d) ==
  LET p == req[d].to IN
  /\ pc[d] = Persisted
  /\ Answer(d, "accepted")
  /\ limiter' = IF p = "pair" THEN [limiter EXCEPT ![p] = Cleared(@, d)] ELSE limiter
  /\ listening' = (listening /\ p # "pair")
  /\ pending' = (pending /\ p # "serve")
  /\ promised' = promised \cup {d}
  /\ UNCHANGED <<files, stores, code, req, trusted, now, consents, spenders, admitted, overlapped>>

-----------------------------------------------------------------------------
(* The device: nexus-mount pair.                                            *)

Receive(d) ==
  /\ pc[d] = "replied"
  /\ Goto(d, IF reply[d] = "accepted" /\ req[d].to = "pair" THEN "keep" ELSE "idle")
  /\ UNCHANGED <<files, stores, gates, req, reply, trusted, now, history>>

\* TrustedCertsStore::add
Keep(d) ==
  /\ pc[d] = "keep"
  /\ trusted' = trusted \cup {d}
  /\ Goto(d, "idle")
  /\ UNCHANGED <<files, stores, gates, req, reply, now, history>>

KeepFails(d) ==
  /\ pc[d] = "keep" /\ Faults # {}
  /\ Goto(d, "idle")
  /\ UNCHANGED <<files, stores, gates, req, reply, trusted, now, history>>

Tick ==
  /\ now < MaxNow /\ now' = now + 1
  /\ UNCHANGED <<files, stores, gates, rpc, trusted, history>>

-----------------------------------------------------------------------------
Init ==
  /\ file \in {NoFile, Torn} /\ tmp = NoFile
  /\ up = {} /\ homeless = {}
  /\ mem = [p \in Process |-> EmptyMap]
  /\ writing = [p \in Process |-> Nobody]
  /\ code = NoCode /\ listening = FALSE /\ pending = FALSE
  /\ limiter = [p \in Process |-> NewLimiter]
  /\ pc = [d \in Device |-> "idle"] /\ req = [d \in Device |-> NoRequest]
  /\ reply = [d \in Device |-> "none"]
  /\ trusted = {} /\ now = 0
  /\ consents = {} /\ promised = {} /\ spenders = {} /\ admitted = {}
  /\ overlapped = FALSE

Handle(d) ==
  \/ WrongCode(d) \/ Exhaust(d) \/ RightCode(d)
  \/ Claim(d) \/ Deny(d)
  \/ Add(d) \/ WriteTmp(d) \/ RenameTmp(d) \/ NoPersist(d) \/ Accept(d)

Next ==
  \/ Serve \/ PairMode \/ CodeExpires \/ PairModeEnds \/ \E p \in Process : Kill(p)
  \/ \E d \in Device :
       \/ \E r \in Request : Ask(d, r)
       \/ Handle(d) \/ Approve(d) \/ Cancel(d) \/ PersistFails(d)
       \/ Receive(d) \/ Keep(d) \/ KeepFails(d)
  \/ Tick

Spec == Init /\ [][Next]_vars

\* The handlers' threads run, and no dialog is there for ever.
Fairness == \A d \in Device : /\ WF_vars(Handle(d)) /\ SF_vars(Add(d))
                              /\ WF_vars(Receive(d)) /\ WF_vars(Keep(d))

FairSpec == Spec /\ Fairness

-----------------------------------------------------------------------------
(* Properties.                                                              *)

Steps == {"idle", "verify", "exhaust", "claim", "dialog", "add", "write", "rename",
          "added", "replied", "keep"}

InStore(d) == pc[d] \in {"write", "rename"}

\* The types, and who has the mutex of a store: the one request that is
\* writing the file, in a process that runs.
TypeOK ==
  /\ up \subseteq Process /\ pending \in BOOLEAN /\ listening \in BOOLEAN
  /\ pc \in [Device -> Steps]
  /\ \A d \in Device : pc[d] # "idle" => req[d] \in Request /\ req[d].from = d
  /\ \A d \in Device : pc[d] \notin {"idle", "keep"} => req[d].to \in up
  /\ \A p \in Process, d \in Device : writing[p] = d <=> InStore(d) /\ req[d].to = p

Asking(d) == req[d].to = "serve" /\ (pc[d] \in {"dialog", "add", "added"} \/ InStore(d))

\* There is a dialog, or a peer being stored because of one, exactly while the
\* flag is set, and one at a time, whatever becomes of the request: so neither
\* is the person flooded with dialogs, nor do they stop for ever (PendingGuard:
\* "however the request ends (including cancellation)").
OneDialog ==
  /\ pending <=> \E d \in Device : Asking(d)
  /\ \A d, e \in Device : Asking(d) /\ Asking(e) => d = e

\* A code lets one device in, whatever guesses and right codes run at once
\* (PairingCode: "one-time-use").
CodeSpentOnce == Cardinality(spenders) <= 1

\* Nobody is in peers.json, or on the way there in a process's memory, whom
\* neither the right code nor a person's answer has let in (approval.rs:
\* "pairing never succeeds without a human answering").
PeersHadConsent ==
  /\ file \notin {NoFile, Torn} => DOMAIN file \subseteq consents
  /\ \A p \in Process : DOMAIN mem[p] \subseteq consents

Paired(d) == file \notin {NoFile, Torn} /\ d \in DOMAIN file

\* A device that was told it is paired, and the more so one that has kept the
\* host's certificate, is in peers.json and stays there, through crashes and
\* failures to write, as long as serve and pair-mode do not run at once.
PromiseKept == ~overlapped => \A d \in promised \cup trusted : Paired(d)

\* The same if they do (ADR 0013: the host "appends" the initiator).
PairedStaysPaired == \A d \in promised : Paired(d)

\* Once as many wrong codes have been counted as there may be, the right one
\* is refused, but for a handler that was already between the two locks
\* (verify: "so no further guesses are possible").
ExhaustedCodeIsDead ==
  [][\A d \in Device : At(d, "pair", "verify") /\ pc'[d] = "add" =>
        ~Reached(code.failed) \/ \E e \in Device : pc[e] = "exhaust"]_vars

\* In no stretch of time as long as a window are more than two windows' worth
\* of an address's attempts let in, whatever the sweeps forget, the successes
\* of pair-mode aside.
AttemptsBounded ==
  \A p \in Process, d \in Device \ promised, t \in 0..now :
    Cardinality({a \in admitted : a.to = p /\ a.ip = d /\ a.at \in t..(t + Window - 1)})
      <= 2 * MaxAttempts[p]

\* Every request is answered, or its device gone: no handler keeps the store's
\* mutex, and the dialog is given up.
EveryRequestAnswered == \A d \in Device : pc[d] # "idle" ~> pc[d] = "idle"
===============================================================================
