----------------------------- MODULE PairingProofs -----------------------------
(***************************************************************************)
(* What Pairing keeps for every set of devices and requests, every limit   *)
(* and every fault: who has the mutex of a store, the one dialog, the code *)
(* that is spent once, and the consent behind every entry of peers.json.   *)
(***************************************************************************)
EXTENDS Pairing, FunctionTheorems, FiniteSetTheorems, TLAPS

-----------------------------------------------------------------------------
(* Types, and who has the mutex of a store.                                 *)

\* Which process a request of each step is at.
Routed ==
  \A d \in Device : /\ pc[d] \in {"verify", "exhaust"} => req[d].to = "pair"
                    /\ pc[d] \in {"claim", "dialog"} => req[d].to = "serve"

Shapes ==
  /\ req \in [Device -> Request \cup {NoRequest}]
  /\ writing \in [Process -> Device \cup {Nobody}]
  /\ DOMAIN mem = Process /\ mem = [p \in Process |-> mem[p]]
  /\ code \in [made : Nat, used : BOOLEAN, failed : Nat]
  /\ now \in Nat

TypeInv == TypeOK /\ Shapes /\ Routed

\* At the start no request is under way.
LEMMA InitTypes == Init => TypeInv
<1>. SUFFICES ASSUME Init PROVE TypeInv
  OBVIOUS
<1>1. Shapes
  BY DEF Init, Shapes, NoCode
<1>2. Routed
  BY DEF Init, Routed
<1>3. TypeOK
  BY PairingAssumption DEF Init, TypeOK, InStore, Steps
<1>. QED
  BY <1>1, <1>2, <1>3 DEF TypeInv

\* A process that starts has no request yet.
LEMMA ProcessSteps ==
  TypeInv /\ (Serve \/ PairMode \/ CodeExpires \/ Tick) => TypeInv'
<1>. SUFFICES ASSUME TypeInv, Serve \/ PairMode \/ CodeExpires \/ Tick PROVE TypeInv'
  OBVIOUS
<1>1. UNCHANGED <<pc, req, writing>> /\ up \subseteq up' /\ up' \subseteq Process
  BY DEF Serve, PairMode, CodeExpires, Tick, OpenStore, stores, rpc, Process, TypeInv, TypeOK
<1>2. pending' \in BOOLEAN /\ listening' \in BOOLEAN
  BY DEF Serve, PairMode, CodeExpires, Tick, OpenStore, gates, TypeInv, TypeOK
<1>3. DOMAIN mem' = Process /\ mem' = [p \in Process |-> mem'[p]]
  <2>1. mem' = mem \/ \E p \in Process : \E m : mem' = [mem EXCEPT ![p] = m]
    BY DEF Serve, PairMode, CodeExpires, Tick, OpenStore, stores, Process
  <2>. QED
    BY <2>1 DEF TypeInv, Shapes
<1>4. code' \in [made : Nat, used : BOOLEAN, failed : Nat] /\ now' \in Nat
  <2>1. CASE Serve \/ CodeExpires
    BY <2>1 DEF Serve, CodeExpires, OpenStore, TypeInv, Shapes
  <2>2. CASE PairMode
    BY <2>2 DEF PairMode, OpenStore, TypeInv, Shapes
  <2>3. CASE Tick
    <3>1. code' = code /\ now' = now + 1
      BY <2>3 DEF Tick, gates
    <3>. QED
      BY <3>1 DEF TypeInv, Shapes
  <2>. QED
    BY <2>1, <2>2, <2>3
<1>5. Shapes'
  BY <1>1, <1>3, <1>4 DEF TypeInv, Shapes
<1>. QED
  BY <1>1, <1>2, <1>5 DEF TypeInv, TypeOK, Routed, InStore

\* Going down, a process gives up its requests and the mutex of its store.
LEMMA DownTypes ==
  ASSUME NEW p \in Process
  PROVE  TypeInv /\ Down(p) => TypeInv'
<1>. SUFFICES ASSUME TypeInv, Down(p) PROVE TypeInv'
  OBVIOUS
<1>1. Shapes'
  BY DEF Down, TypeInv, Shapes
<1>2. Routed'
  BY DEF Down, TypeInv, Routed, Shapes
<1>3. TypeOK'
  BY PairingAssumption DEF Down, TypeInv, TypeOK, Shapes, InStore, InFlight, Steps
<1>. QED
  BY <1>1, <1>2, <1>3 DEF TypeInv

\* A request that arrives is routed to the process it is for.
LEMMA AskTypes ==
  ASSUME NEW d \in Device, NEW r \in Request
  PROVE  TypeInv /\ Ask(d, r) => TypeInv'
<1>. SUFFICES ASSUME TypeInv, Ask(d, r) PROVE TypeInv'
  OBVIOUS
<1>1. /\ pc[d] = "idle" /\ r.from = d /\ r.to \in up
      /\ req' = [req EXCEPT ![d] = r]
      /\ UNCHANGED <<files, stores, code, listening, pending, now>>
  BY DEF Ask
<1>2. \/ pc' = [pc EXCEPT ![d] = "replied"]
      \/ pc' = [pc EXCEPT ![d] = IF r.to = "pair" THEN "verify" ELSE "claim"]
  BY DEF Ask, Answer, Goto
<1>3. Shapes'
  BY <1>1 DEF TypeInv, Shapes, stores
<1>4. Routed'
  BY <1>1, <1>2, PairingAssumption DEF TypeInv, TypeOK, Shapes, Routed, Process
<1>5. TypeOK'
  BY <1>1, <1>2 DEF TypeInv, TypeOK, Shapes, InStore, Steps, stores
<1>. QED
  BY <1>3, <1>4, <1>5 DEF TypeInv

\* The steps of a request outside the mutex of a store.
LEMMA GateTypes ==
  ASSUME NEW d \in Device
  PROVE  TypeInv /\ (\/ WrongCode(d) \/ Exhaust(d) \/ RightCode(d) \/ Claim(d) \/ Approve(d)
                     \/ Deny(d) \/ Cancel(d) \/ Accept(d)
                     \/ Receive(d) \/ Keep(d) \/ KeepFails(d))
         => TypeInv'
<1>. SUFFICES ASSUME TypeInv,
                     \/ WrongCode(d) \/ Exhaust(d) \/ RightCode(d) \/ Claim(d) \/ Approve(d)
                     \/ Deny(d) \/ Cancel(d) \/ Accept(d)
                     \/ Receive(d) \/ Keep(d) \/ KeepFails(d)
              PROVE  TypeInv'
  OBVIOUS
<1>1. UNCHANGED <<req, writing, mem, up, now>>
  BY DEF WrongCode, Exhaust, RightCode, Claim, Approve, Deny, Cancel, Accept, Receive, Keep,
         KeepFails, stores, rpc
<1>2. pending' \in BOOLEAN /\ listening' \in BOOLEAN
  BY DEF WrongCode, Exhaust, RightCode, Claim, Approve, Deny, Cancel, Accept, Receive, Keep,
         KeepFails, DropGuard, gates, TypeInv, TypeOK
<1>3. code' \in [made : Nat, used : BOOLEAN, failed : Nat]
  <2>1. \/ code' = code
        \/ code' = [code EXCEPT !.failed = @ + 1]
        \/ code' = [code EXCEPT !.used = TRUE]
    BY DEF WrongCode, Exhaust, RightCode, Claim, Approve, Deny, Cancel, Accept, Receive, Keep,
           KeepFails, Invalidated, gates
  <2>2. code \in [made : Nat, used : BOOLEAN, failed : Nat]
    BY DEF TypeInv, Shapes
  <2>3. [code EXCEPT !.failed = @ + 1] \in [made : Nat, used : BOOLEAN, failed : Nat]
    BY <2>2
  <2>4. [code EXCEPT !.used = TRUE] \in [made : Nat, used : BOOLEAN, failed : Nat]
    BY <2>2
  <2>. QED
    BY <2>1, <2>2, <2>3, <2>4
<1>. DEFINE Moves(next) == /\ pc' = [pc EXCEPT ![d] = next]
                           /\ next \in Steps \ {"write", "rename", "verify", "claim"}
                           /\ pc[d] \notin {"write", "rename", "idle"}
                           /\ pc[d] = "keep" => next = "idle"
                           /\ next = "exhaust" => pc[d] = "verify"
                           /\ next = "dialog" => pc[d] = "claim"
<1>4. \E next \in Steps : Moves(next)
  <2>1. CASE WrongCode(d) \/ Exhaust(d) \/ RightCode(d)
    <3>1. CASE WrongCode(d) \/ Exhaust(d)
      <4>1. Moves("exhaust") \/ Moves("replied")
        BY <3>1 DEF WrongCode, Exhaust, At, Goto, Answer, Steps
      <4>. QED
        BY <4>1 DEF Steps
    <3>2. CASE RightCode(d)
      <4>1. Moves("add") \/ Moves("replied")
        <5>1. Goto(d, "add") \/ Goto(d, "replied")
          BY <3>2 DEF RightCode, Answer
        <5>. QED
          BY <5>1, <3>2 DEF RightCode, At, Goto, Steps
      <4>. QED
        BY <4>1 DEF Steps
    <3>. QED
      BY <2>1, <3>1, <3>2
  <2>2. CASE Claim(d) \/ Approve(d) \/ Deny(d) \/ Cancel(d)
    <3>1. Moves("dialog") \/ Moves("replied") \/ Moves("add") \/ Moves("idle")
      BY <2>2 DEF Claim, Approve, Deny, Cancel, Goto, Answer, Steps
    <3>. QED
      BY <3>1 DEF Steps
  <2>3. CASE Accept(d) \/ Receive(d) \/ Keep(d) \/ KeepFails(d)
    <3>1. Moves("replied") \/ Moves("idle") \/ Moves("keep")
      BY <2>3 DEF Accept, Receive, Keep, KeepFails, Persisted, Goto, Answer, Steps
    <3>. QED
      BY <3>1 DEF Steps
  <2>. QED
    BY <2>1, <2>2, <2>3
<1>5. Shapes'
  BY <1>1, <1>3 DEF TypeInv, Shapes
<1>6. Routed'
  BY <1>1, <1>4 DEF TypeInv, TypeOK, Routed
<1>7. TypeOK'
  BY <1>1, <1>2, <1>4 DEF TypeInv, TypeOK, InStore
<1>. QED
  BY <1>5, <1>6, <1>7 DEF TypeInv

\* The steps of PeersStore::add: taking the mutex, writing, giving it back.
LEMMA StoreTypes ==
  ASSUME NEW d \in Device
  PROVE  TypeInv /\ (Add(d) \/ WriteTmp(d) \/ RenameTmp(d) \/ NoPersist(d) \/ PersistFails(d))
         => TypeInv'
<1>. SUFFICES ASSUME TypeInv,
                     Add(d) \/ WriteTmp(d) \/ RenameTmp(d) \/ NoPersist(d) \/ PersistFails(d)
              PROVE  TypeInv'
  OBVIOUS
<1>. DEFINE p == req[d].to
<1>1. /\ UNCHANGED <<req, up, now, code, listening>> /\ pending' \in BOOLEAN
      /\ pc[d] \in {"add", "write", "rename"} /\ p \in Process
  BY DEF Add, WriteTmp, RenameTmp, NoPersist, PersistFails, NotPersisted, stores, rpc, gates,
         TypeInv, TypeOK
<1>2. mem' = mem \/ mem' = [mem EXCEPT ![p] = With(@, d, req[d].cert)]
  BY DEF Add, WriteTmp, RenameTmp, NoPersist, PersistFails, NotPersisted, stores
<1>3. \/ /\ writing[p] = Nobody /\ writing' = [writing EXCEPT ![p] = d]
         /\ pc[d] = "add" /\ pc' = [pc EXCEPT ![d] = "write"]
      \/ /\ writing' = writing /\ pc[d] = "write" /\ pc' = [pc EXCEPT ![d] = "rename"]
      \/ /\ writing' = [writing EXCEPT ![p] = Nobody] /\ InStore(d)
         /\ \E next \in {"added", "replied"} : pc' = [pc EXCEPT ![d] = next]
  BY DEF Add, WriteTmp, RenameTmp, NoPersist, PersistFails, NotPersisted, stores, Goto, Answer,
         InStore
<1>4. Shapes'
  <2>1. DOMAIN mem' = Process /\ mem' = [q \in Process |-> mem'[q]]
    BY <1>2 DEF TypeInv, Shapes
  <2>2. writing' \in [Process -> Device \cup {Nobody}]
    BY <1>3 DEF TypeInv, Shapes
  <2>. QED
    BY <1>1, <2>1, <2>2 DEF TypeInv, Shapes
<1>5. Routed'
  BY <1>1, <1>3 DEF TypeInv, TypeOK, Routed
<1>6. pc' \in [Device -> Steps]
  BY <1>3 DEF TypeInv, TypeOK, Steps
<1>7. \A e \in Device : /\ pc'[e] # "idle" => req'[e] \in Request /\ req'[e].from = e
                        /\ pc'[e] \notin {"idle", "keep"} => req'[e].to \in up'
  BY <1>1, <1>3 DEF TypeInv, TypeOK
<1>8. ASSUME NEW q \in Process, NEW e \in Device
      PROVE  writing'[q] = e <=> InStore(e)' /\ req'[e].to = q
  BY <1>1, <1>3, PairingAssumption DEF TypeInv, TypeOK, Shapes, InStore
<1>. QED
  BY <1>1, <1>4, <1>5, <1>6, <1>7, <1>8 DEF TypeInv, TypeOK

\* Every step keeps the types.
LEMMA NextTypes == TypeInv /\ [Next]_vars => TypeInv'
<1>. SUFFICES ASSUME TypeInv, [Next]_vars PROVE TypeInv'
  OBVIOUS
<1>1. CASE Serve \/ PairMode \/ CodeExpires \/ Tick
  BY <1>1, ProcessSteps
<1>2. CASE PairModeEnds \/ \E p \in Process : Kill(p)
  BY <1>2, DownTypes DEF PairModeEnds, Kill, Process
<1>3. CASE \E d \in Device, r \in Request : Ask(d, r)
  BY <1>3, AskTypes
<1>4. CASE \E d \in Device : Handle(d) \/ Approve(d) \/ Cancel(d) \/ PersistFails(d)
                             \/ Receive(d) \/ Keep(d) \/ KeepFails(d)
  BY <1>4, GateTypes, StoreTypes DEF Handle
<1>5. CASE UNCHANGED vars
  BY <1>5 DEF vars, stores, gates, rpc, TypeInv, TypeOK, Shapes, Routed, InStore
<1>. QED
  BY <1>1, <1>2, <1>3, <1>4, <1>5 DEF Next

-----------------------------------------------------------------------------
(* One dialog at a time.                                                    *)

OthersKept(d) == \A e \in Device \ {d} : pc'[e] = pc[e] /\ req'[e] = req[e]

\* A step of one request, which leaves the flag alone and neither shows a
\* dialog nor takes one away.
LEMMA DialogFrame ==
  ASSUME NEW d \in Device
  PROVE  /\ OneDialog /\ pending' = pending
         /\ OthersKept(d) /\ (Asking(d)' <=> Asking(d))
         => OneDialog'
<1>. SUFFICES ASSUME OneDialog, pending' = pending, OthersKept(d), Asking(d)' <=> Asking(d)
              PROVE  OneDialog'
  OBVIOUS
<1>1. \A e \in Device : Asking(e)' <=> Asking(e)
  BY DEF Asking, InStore, OthersKept
<1>. QED
  BY <1>1 DEF OneDialog

\* A request that ends takes its dialog with it.
LEMMA DialogEnds ==
  ASSUME NEW d \in Device
  PROVE  OneDialog /\ Asking(d) /\ ~pending' /\ ~Asking(d)' /\ OthersKept(d)
         => OneDialog'
<1>. SUFFICES ASSUME OneDialog, Asking(d), ~pending', ~Asking(d)', OthersKept(d)
              PROVE  OneDialog'
  OBVIOUS
<1>1. \A e \in Device \ {d} : ~Asking(e)
  BY DEF OneDialog
<1>2. \A e \in Device : ~Asking(e)'
  BY <1>1 DEF Asking, InStore, OthersKept
<1>. QED
  BY <1>2 DEF OneDialog

\* A process that goes down takes its dialog and its flag with it.
LEMMA DialogDown ==
  ASSUME NEW p \in Process
  PROVE  TypeInv /\ OneDialog /\ Down(p) => OneDialog'
<1>. SUFFICES ASSUME TypeInv, OneDialog, Down(p) PROVE OneDialog'
  OBVIOUS
<1>1. \A e \in Device : /\ pc'[e] = IF e \in InFlight(p) THEN "idle" ELSE pc[e]
                        /\ req'[e] = IF e \in InFlight(p) THEN NoRequest ELSE req[e]
  BY DEF Down
<1>2. CASE p = "serve"
  <2>1. \A e \in Device : ~Asking(e)'
    BY <1>1, <1>2 DEF Asking, InStore, InFlight
  <2>2. ~pending'
    BY <1>2 DEF Down
  <2>. QED
    BY <2>1, <2>2 DEF OneDialog
<1>3. CASE p = "pair"
  <2>1. \A e \in Device : Asking(e)' <=> Asking(e)
    BY <1>1, <1>3 DEF Asking, InStore, InFlight
  <2>2. pending' = pending
    BY <1>3 DEF Down, TypeInv, TypeOK
  <2>. QED
    BY <2>1, <2>2 DEF OneDialog
<1>. QED
  BY <1>2, <1>3 DEF Process

\* The steps of one request.
LEMMA DialogSteps ==
  ASSUME NEW d \in Device
  PROVE  TypeInv /\ OneDialog /\ (\/ Handle(d) \/ Approve(d) \/ Cancel(d) \/ PersistFails(d)
                                  \/ Receive(d) \/ Keep(d) \/ KeepFails(d))
         => OneDialog'
<1>. SUFFICES ASSUME TypeInv, OneDialog,
                     \/ Handle(d) \/ Approve(d) \/ Cancel(d) \/ PersistFails(d)
                     \/ Receive(d) \/ Keep(d) \/ KeepFails(d)
              PROVE  OneDialog'
  OBVIOUS
<1>. USE DEF TypeInv
<1>0. pc \in [Device -> Steps] /\ pending \in BOOLEAN
  BY DEF TypeOK
<1>. DEFINE Moves == req' = req /\ \E next : pc' = [pc EXCEPT ![d] = next]
<1>a. Moves => OthersKept(d)
  BY <1>0 DEF OthersKept
<1>1. CASE WrongCode(d) \/ Exhaust(d) \/ RightCode(d) \/ Receive(d) \/ Keep(d) \/ KeepFails(d)
  <2>1. /\ pending' = pending /\ req' = req
        /\ \E next : pc' = [pc EXCEPT ![d] = next]
    BY <1>1 DEF WrongCode, Exhaust, RightCode, Receive, Keep, KeepFails, Goto, Answer, gates, rpc
  <2>2. ~Asking(d)
    BY <1>1 DEF WrongCode, Exhaust, RightCode, Receive, Keep, KeepFails, At, Asking, InStore,
               Routed
  <2>3. ~Asking(d)'
    <3>1. CASE WrongCode(d) \/ Exhaust(d) \/ RightCode(d)
      <4>1. req[d].to = "pair"
        BY <3>1 DEF WrongCode, Exhaust, RightCode, At, Routed
      <4>. QED
        BY <2>1, <4>1 DEF Asking
    <3>2. CASE Receive(d) \/ Keep(d) \/ KeepFails(d)
      <4>1. pc'[d] \in {"idle", "keep"}
        BY <3>2, <1>0 DEF Receive, Keep, KeepFails, Goto
      <4>. QED
        BY <4>1 DEF Asking, InStore
    <3>. QED
      BY <1>1, <3>1, <3>2
  <2>. QED
    BY <2>1, <2>2, <2>3, <1>a, DialogFrame
<1>2. CASE Claim(d)
  <2>1. ~Asking(d) /\ req[d].to = "serve" /\ req' = req /\ pc[d] = "claim"
    BY <1>2 DEF Claim, Asking, InStore, Routed
  <2>2. CASE req[d].valid /\ ~pending
    <3>1. pc' = [pc EXCEPT ![d] = "dialog"] /\ pending'
      BY <1>2, <2>2 DEF Claim, Goto
    <3>2. \A e \in Device : ~Asking(e)
      BY <2>2 DEF OneDialog
    <3>3. \A e \in Device : Asking(e)' <=> e = d
      BY <3>1, <3>2, <2>1, <1>0 DEF Asking, InStore
    <3>. QED
      BY <3>1, <3>3 DEF OneDialog
  <2>3. CASE ~(req[d].valid /\ ~pending)
    <3>1. pc' = [pc EXCEPT ![d] = "replied"] /\ pending' = pending
      BY <1>2, <2>3 DEF Claim, Answer, Goto
    <3>2. ~Asking(d)'
      BY <3>1, <1>0 DEF Asking, InStore
    <3>. QED
      BY <3>1, <3>2, <2>1, <1>a, DialogFrame
  <2>. QED
    BY <2>2, <2>3
<1>3. CASE Approve(d) \/ Add(d) \/ WriteTmp(d) \/ RenameTmp(d)
  <2>1. pending' = pending /\ req' = req
    BY <1>3 DEF Approve, Add, WriteTmp, RenameTmp, gates
  <2>2. /\ pc[d] \in {"dialog", "add", "write", "rename"}
        /\ \E next \in {"add", "write", "rename", "added"} : pc' = [pc EXCEPT ![d] = next]
    BY <1>3 DEF Approve, Add, WriteTmp, RenameTmp, Goto
  <2>3. Asking(d)' <=> Asking(d)
    BY <2>1, <2>2, <1>0 DEF Asking, InStore
  <2>. QED
    BY <2>1, <2>2, <2>3, <1>a, DialogFrame
<1>4. CASE Deny(d) \/ Cancel(d)
  <2>1. /\ ~pending' /\ req' = req
        /\ pc[d] = "dialog" /\ \E next \in {"idle", "replied"} : pc' = [pc EXCEPT ![d] = next]
    BY <1>4 DEF Deny, Cancel, DropGuard, Goto, Answer
  <2>2. Asking(d) /\ ~Asking(d)'
    BY <2>1, <1>0 DEF Asking, InStore, Routed
  <2>. QED
    BY <2>1, <2>2, <1>a, DialogEnds
<1>5. CASE NoPersist(d) \/ PersistFails(d) \/ Accept(d)
  <2>1. /\ pc[d] \in {"write", "rename", "added"} /\ pc' = [pc EXCEPT ![d] = "replied"]
        /\ req' = req /\ pending' = (pending /\ req[d].to # "serve")
    BY <1>5 DEF NoPersist, PersistFails, NotPersisted, Accept, Persisted, Answer, Goto
  <2>2. ~Asking(d)'
    BY <2>1, <1>0 DEF Asking, InStore
  <2>3. CASE req[d].to = "serve"
    <3>1. Asking(d)
      BY <2>1, <2>3 DEF Asking, InStore
    <3>. QED
      BY <2>1, <2>2, <2>3, <3>1, <1>a, DialogEnds
  <2>4. CASE req[d].to # "serve"
    <3>1. ~Asking(d) /\ pending' = pending
      BY <2>1, <2>4, <1>0 DEF Asking
    <3>. QED
      BY <2>1, <2>2, <3>1, <1>a, DialogFrame
  <2>. QED
    BY <2>3, <2>4
<1>. QED
  BY <1>1, <1>2, <1>3, <1>4, <1>5 DEF Handle

\* Every step keeps the flag and the dialog together.
LEMMA DialogNext == TypeInv /\ OneDialog /\ [Next]_vars => OneDialog'
<1>. SUFFICES ASSUME TypeInv, OneDialog, [Next]_vars PROVE OneDialog'
  OBVIOUS
<1>1. CASE Serve \/ PairMode \/ CodeExpires \/ Tick \/ UNCHANGED vars
  <2>1. UNCHANGED <<pc, req, pending>>
    BY <1>1 DEF Serve, PairMode, CodeExpires, Tick, OpenStore, vars, gates, rpc
  <2>. QED
    BY <2>1 DEF OneDialog, Asking, InStore
<1>2. CASE PairModeEnds \/ \E p \in Process : Kill(p)
  BY <1>2, DialogDown DEF PairModeEnds, Kill, Process
<1>3. ASSUME NEW d \in Device, NEW r \in Request, Ask(d, r) PROVE OneDialog'
  <2>1. /\ pending' = pending /\ req' = [req EXCEPT ![d] = r] /\ pc[d] = "idle"
        /\ \E next \in {"replied", "verify", "claim"} : pc' = [pc EXCEPT ![d] = next]
    BY <1>3 DEF Ask, Answer, Goto
  <2>2. ~Asking(d) /\ ~Asking(d)'
    BY <2>1 DEF Asking, InStore, TypeInv, TypeOK
  <2>3. OthersKept(d)
    BY <2>1 DEF OthersKept, TypeInv, TypeOK, Shapes
  <2>. QED
    BY <2>1, <2>2, <2>3, DialogFrame
<1>4. CASE \E d \in Device : Handle(d) \/ Approve(d) \/ Cancel(d) \/ PersistFails(d)
                             \/ Receive(d) \/ Keep(d) \/ KeepFails(d)
  BY <1>4, DialogSteps
<1>. QED
  BY <1>1, <1>2, <1>3, <1>4 DEF Next

-----------------------------------------------------------------------------
(* The code.                                                                *)

\* A code that has let a device in is used, and it has let in one.
Spent == spenders = {} \/ (code.used /\ \E d \in Device : spenders = {d})

\* A code that was guessed at too often is used, or is about to be.
Guessed ==
  "pair" \in up /\ Reached(code.failed)
  => code.used \/ \E e \in Device : pc[e] = "exhaust"

\* Every step keeps the code spent by at most one device.
LEMMA CodeNext == TypeInv /\ Spent /\ Guessed /\ [Next]_vars => Spent' /\ Guessed'
<1>. SUFFICES ASSUME TypeInv, Spent, Guessed, [Next]_vars PROVE Spent' /\ Guessed'
  OBVIOUS
<1>0. pc \in [Device -> Steps] /\ code \in [made : Nat, used : BOOLEAN, failed : Nat]
  BY DEF TypeInv, TypeOK, Shapes
<1>1. ASSUME UNCHANGED <<code, spenders>>, "pair" \in up' => "pair" \in up,
             "pair" \in up' =>
               \A e \in Device : pc[e] = "exhaust" => pc'[e] = "exhaust"
      PROVE  Spent' /\ Guessed'
  BY <1>1 DEF Spent, Guessed, Reached
<1>2. CASE CodeExpires \/ Tick \/ UNCHANGED vars
  <2>1. UNCHANGED <<code, spenders, up, pc>>
    BY <1>2 DEF CodeExpires, Tick, vars, stores, gates, rpc, history
  <2>. QED
    BY <2>1, <1>1
<1>3. CASE Serve
  <2>1. UNCHANGED <<code, spenders, pc>> /\ up' = up \cup {"serve"}
    BY <1>3 DEF Serve, OpenStore, rpc
  <2>. QED
    BY <2>1, <1>1
<1>4. CASE PairMode
  <2>1. spenders' = {} /\ code'.failed = 0
    BY <1>4 DEF PairMode
  <2>. QED
    BY <2>1, PairingAssumption DEF Spent, Guessed, Reached
<1>5. ASSUME NEW p \in Process, Down(p) PROVE Spent' /\ Guessed'
  <2>1. UNCHANGED <<code, spenders>> /\ up' = up \ {p}
    BY <1>5 DEF Down, history
  <2>2. ASSUME "pair" \in up', NEW e \in Device, pc[e] = "exhaust" PROVE pc'[e] = "exhaust"
    <3>1. p # "pair" /\ req[e].to = "pair"
      BY <2>1, <2>2 DEF TypeInv, Routed
    <3>2. e \notin InFlight(p)
      BY <3>1 DEF InFlight
    <3>. QED
      BY <3>2, <2>2, <1>5 DEF Down
  <2>. QED
    BY <2>1, <2>2, <1>1
<1>6. ASSUME NEW d \in Device, NEW r \in Request, Ask(d, r) PROVE Spent' /\ Guessed'
  <2>1. /\ UNCHANGED <<code, spenders, up>> /\ pc[d] = "idle"
        /\ \E next : pc' = [pc EXCEPT ![d] = next]
    BY <1>6 DEF Ask, Answer, Goto, stores
  <2>. QED
    BY <2>1, <1>0, <1>1
<1>7. ASSUME NEW d \in Device,
             \/ Claim(d) \/ Deny(d) \/ Approve(d) \/ Cancel(d)
             \/ Add(d) \/ WriteTmp(d) \/ RenameTmp(d) \/ NoPersist(d) \/ PersistFails(d)
             \/ Accept(d) \/ Receive(d) \/ Keep(d) \/ KeepFails(d)
      PROVE  Spent' /\ Guessed'
  <2>1. UNCHANGED <<code, spenders, up>>
    BY <1>7 DEF Claim, Deny, Approve, Cancel, Add, WriteTmp, RenameTmp, NoPersist, PersistFails,
                NotPersisted, Accept, Receive, Keep, KeepFails, stores, gates, history
  <2>2. pc[d] # "exhaust" /\ \E next : pc' = [pc EXCEPT ![d] = next]
    BY <1>7 DEF Claim, Deny, Approve, Cancel, Add, WriteTmp, RenameTmp, NoPersist, PersistFails,
                NotPersisted, Accept, Persisted, Receive, Keep, KeepFails, Goto, Answer
  <2>. QED
    BY <2>1, <2>2, <1>0, <1>1
<1>8. ASSUME NEW d \in Device, WrongCode(d) PROVE Spent' /\ Guessed'
  <2>1. /\ spenders' = spenders /\ up' = up /\ code' = [code EXCEPT !.failed = @ + 1]
        /\ \A e \in Device : pc[e] # "exhaust"
        /\ pc[d] = "verify"
        /\ Reached(code.failed + 1) => pc' = [pc EXCEPT ![d] = "exhaust"]
    BY <1>8 DEF WrongCode, At, Goto, stores, history
  <2>2. code'.used = code.used /\ code'.failed = code.failed + 1
    BY <2>1, <1>0
  <2>. QED
    BY <2>1, <2>2, <1>0 DEF Spent, Guessed
<1>9. ASSUME NEW d \in Device, Exhaust(d) PROVE Spent' /\ Guessed'
  <2>1. spenders' = spenders /\ code'.used = TRUE
    BY <1>9, <1>0 DEF Exhaust, Invalidated, history
  <2>. QED
    BY <2>1 DEF Spent, Guessed
<1>10. ASSUME NEW d \in Device, RightCode(d) PROVE Spent' /\ Guessed'
  <2>1. CASE Usable
    <3>1. spenders' = spenders \cup {d} /\ code'.used = TRUE
      BY <1>10, <2>1, <1>0 DEF RightCode
    <3>2. spenders = {}
      BY <2>1 DEF Usable, Spent
    <3>. QED
      BY <3>1, <3>2 DEF Spent, Guessed
  <2>2. CASE ~Usable
    <3>1. UNCHANGED <<code, spenders, up>> /\ pc[d] = "verify"
          /\ \E next : pc' = [pc EXCEPT ![d] = next]
      BY <1>10, <2>2 DEF RightCode, At, Answer, Goto, stores
    <3>. QED
      BY <3>1, <1>0, <1>1
  <2>. QED
    BY <2>1, <2>2
<1>. QED
  BY <1>2, <1>3, <1>4, <1>5, <1>6, <1>7, <1>8, <1>9, <1>10
     DEF Next, Handle, PairModeEnds, Kill, Process

-----------------------------------------------------------------------------
(* Consent.                                                                 *)

Within(f) == f \notin {NoFile, Torn} => DOMAIN f \subseteq consents

\* Nobody is on the way to peers.json without consent either.
Consented ==
  /\ Within(file) /\ Within(tmp)
  /\ \A p \in Process : DOMAIN mem[p] \subseteq consents
  /\ \A d \in Device : pc[d] = "add" => d \in consents

\* Every step keeps those without consent out of the stores.
LEMMA ConsentNext == TypeInv /\ Consented /\ [Next]_vars => Consented'
<1>. SUFFICES ASSUME TypeInv, Consented, [Next]_vars PROVE Consented'
  OBVIOUS
<1>. USE DEF Consented
<1>0. /\ pc \in [Device -> Steps] /\ DOMAIN mem = Process
      /\ mem = [p \in Process |-> mem[p]]
      /\ \A d \in Device : pc[d] \notin {"idle", "keep"} => req[d].to \in Process
  BY DEF TypeInv, TypeOK, Shapes
<1>1. ASSUME UNCHANGED <<file, tmp, mem>>, consents \subseteq consents',
             \A d \in Device : pc'[d] = "add" => pc[d] = "add" \/ d \in consents'
      PROVE  Consented'
  BY <1>1 DEF Within
<1>2. CASE CodeExpires \/ Tick \/ UNCHANGED vars
  <2>1. UNCHANGED <<file, tmp, mem, pc, consents>>
    BY <1>2 DEF CodeExpires, Tick, vars, files, stores, rpc, history
  <2>. QED
    BY <2>1, <1>1
<1>3. ASSUME NEW p \in Process, OpenStore(p) PROVE Consented'
  <2>1. UNCHANGED <<file, tmp, pc, consents>>
    BY <1>3 DEF OpenStore, files, rpc
  <2>2. \A q \in Process : DOMAIN mem'[q] \subseteq consents
    <3>1. \A q \in Process :
            mem'[q] = IF q = p THEN IF file \in {NoFile, Torn} THEN EmptyMap ELSE file
                      ELSE mem[q]
      BY <1>0, <1>3 DEF OpenStore
    <3>2. DOMAIN EmptyMap = {}
      BY DEF EmptyMap
    <3>. QED
      BY <3>1, <3>2 DEF Within
  <2>. QED
    BY <2>1, <2>2 DEF Within
<1>4. ASSUME NEW p \in Process, Down(p) PROVE Consented'
  <2>1. UNCHANGED <<file, tmp, mem, consents>>
    BY <1>4 DEF Down, files, history
  <2>2. \A d \in Device : pc'[d] = "add" => pc[d] = "add"
    BY <1>4 DEF Down
  <2>. QED
    BY <2>1, <2>2, <1>1
<1>5. ASSUME NEW d \in Device, NEW r \in Request, Ask(d, r) PROVE Consented'
  <2>1. UNCHANGED <<file, tmp, mem, consents>>
    BY <1>5 DEF Ask, files, stores
  <2>2. \E next \in {"replied", "verify", "claim"} : pc' = [pc EXCEPT ![d] = next]
    BY <1>5 DEF Ask, Answer, Goto
  <2>. QED
    BY <2>1, <2>2, <1>0, <1>1
<1>6. ASSUME NEW d \in Device, Approve(d) \/ RightCode(d) PROVE Consented'
  <2>1. UNCHANGED <<file, tmp, mem>> /\ consents \subseteq consents'
    BY <1>6 DEF Approve, RightCode, files, stores
  <2>2. \E next : pc' = [pc EXCEPT ![d] = next] /\ (next = "add" => d \in consents')
    BY <1>6 DEF Approve, RightCode, Goto, Answer
  <2>. QED
    BY <2>1, <2>2, <1>0, <1>1
<1>7. ASSUME NEW d \in Device,
             \/ WrongCode(d) \/ Exhaust(d) \/ Claim(d) \/ Deny(d) \/ Cancel(d)
             \/ NoPersist(d) \/ PersistFails(d) \/ Accept(d) \/ Receive(d) \/ Keep(d)
             \/ KeepFails(d)
      PROVE  Consented'
  <2>1. UNCHANGED <<file, tmp, mem, consents>>
    BY <1>7 DEF WrongCode, Exhaust, Claim, Deny, Cancel, NoPersist, PersistFails, NotPersisted,
                Accept, Receive, Keep, KeepFails, files, stores, history
  <2>2. \E next : pc' = [pc EXCEPT ![d] = next] /\ next # "add"
    BY <1>7 DEF WrongCode, Exhaust, Claim, Deny, Cancel, NoPersist, PersistFails, NotPersisted,
                Accept, Receive, Keep, KeepFails, Goto, Answer
  <2>. QED
    BY <2>1, <2>2, <1>0, <1>1
<1>8. ASSUME NEW d \in Device, Add(d) PROVE Consented'
  <2>. DEFINE p == req[d].to
  <2>1. /\ UNCHANGED <<file, tmp, consents>> /\ d \in consents /\ p \in Process
        /\ mem' = [mem EXCEPT ![p] = With(@, d, req[d].cert)]
        /\ pc' = [pc EXCEPT ![d] = "write"]
    BY <1>8, <1>0 DEF Add, Goto, files, history
  <2>2. DOMAIN With(mem[p], d, req[d].cert) = DOMAIN mem[p] \cup {d}
    BY DEF With
  <2>3. \A q \in Process : DOMAIN mem'[q] \subseteq consents
    BY <2>1, <2>2, <1>0
  <2>. QED
    BY <2>1, <2>3, <1>0 DEF Within
<1>9. ASSUME NEW d \in Device, WriteTmp(d) PROVE Consented'
  <2>1. /\ UNCHANGED <<file, mem, consents>> /\ tmp' = mem[req[d].to]
        /\ req[d].to \in Process /\ pc' = [pc EXCEPT ![d] = "rename"]
    BY <1>9, <1>0 DEF WriteTmp, Goto, stores, history
  <2>. QED
    BY <2>1, <1>0 DEF Within
<1>10. ASSUME NEW d \in Device, RenameTmp(d) PROVE Consented'
  <2>1. /\ UNCHANGED <<mem, consents>> /\ file' = tmp /\ tmp' = NoFile
        /\ pc' = [pc EXCEPT ![d] = "added"]
    BY <1>10 DEF RenameTmp, Goto, history
  <2>. QED
    BY <2>1, <1>0 DEF Within
<1>. QED
  BY <1>2, <1>3, <1>4, <1>5, <1>6, <1>7, <1>8, <1>9, <1>10
     DEF Next, Handle, Serve, PairMode, PairModeEnds, Kill, Process

-----------------------------------------------------------------------------
(* Promises.                                                                *)

Peer == {r.cert : r \in Request}

\* What is in a process's memory, in the file and in the temporary file, and
\* that each device has its reply.
StoresTyped ==
  /\ reply = [d \in Device |-> reply[d]]
  /\ \A p \in Process : mem[p] \in PeersFile
  /\ file \in PeersFile \cup {NoFile, Torn}
  /\ tmp \in PeersFile \cup {NoFile}

\* One process runs, and what it has in memory is all that is in the file and
\* whatever it is about to write; without a file it writes nothing.
Sole ==
  /\ \A p, q \in up : p = q
  /\ \A p \in up : p \in homeless => file = Torn
  /\ \A p \in up : p \notin homeless /\ file \notin {NoFile, Torn} => DOMAIN file \subseteq DOMAIN mem[p]

\* How far the peer of a request has come.
OnItsWay ==
  \A d \in Device :
    /\ InStore(d) => d \in DOMAIN mem[req[d].to]
    /\ pc[d] = "rename" => req[d].to \notin homeless /\ tmp = mem[req[d].to]
    /\ pc[d] = "added" => Paired(d)

\* Who was told it is paired is in the file, and nobody keeps the host's
\* certificate who was not.
Told ==
  /\ trusted \subseteq promised
  /\ \A d \in Device : \/ pc[d] = "keep"
                       \/ pc[d] = "replied" /\ reply[d] = "accepted"
                       => d \in promised
  /\ \A d \in promised : Paired(d)

Promised == ~overlapped => Sole /\ OnItsWay /\ Told

\* Adding a peer to a map of peers makes one.
LEMMA WithPeer ==
  ASSUME NEW m \in PeersFile, NEW d \in Device, NEW c \in Peer
  PROVE  With(m, d, c) \in PeersFile /\ DOMAIN With(m, d, c) = DOMAIN m \cup {d}
<1>1. PICK ds \in SUBSET Device : m \in [ds -> Peer]
  BY DEF PeersFile, Peer
<1>2. With(m, d, c) \in [ds \cup {d} -> Peer]
  BY <1>1 DEF With
<1>. QED
  BY <1>1, <1>2 DEF PeersFile, Peer

\* Every step keeps peers in the stores.
LEMMA StoresNext == TypeInv /\ StoresTyped /\ [Next]_vars => StoresTyped'
<1>. SUFFICES ASSUME TypeInv, StoresTyped, [Next]_vars PROVE StoresTyped'
  OBVIOUS
<1>0. DOMAIN mem = Process /\ mem = [p \in Process |-> mem[p]]
  BY DEF TypeInv, Shapes
<1>r. reply' = [d \in Device |-> reply'[d]]
  <2>1. reply' = reply \/ \E d \in Device : \E a : reply' = [reply EXCEPT ![d] = a]
    <3>1. ASSUME NEW d \in Device, Handle(d)
          PROVE  reply' = reply \/ \E a : reply' = [reply EXCEPT ![d] = a]
      BY <3>1 DEF Handle, WrongCode, Exhaust, RightCode, Claim, Deny, Add, WriteTmp, RenameTmp,
        NoPersist, NotPersisted, Accept, Answer
    <3>2. ASSUME NEW d \in Device,
                 \/ \E r \in Request : Ask(d, r)
                 \/ Approve(d) \/ Cancel(d) \/ PersistFails(d) \/ Receive(d) \/ Keep(d)
                 \/ KeepFails(d)
          PROVE  reply' = reply \/ \E a : reply' = [reply EXCEPT ![d] = a]
      BY <3>2 DEF Ask, Approve, Cancel, PersistFails, NotPersisted, Receive, Keep, KeepFails,
        Answer
    <3>3. CASE Serve \/ PairMode \/ CodeExpires \/ PairModeEnds \/ Tick \/ UNCHANGED vars
               \/ \E p \in Process : Kill(p)
      BY <3>3 DEF Serve, PairMode, OpenStore, CodeExpires, PairModeEnds, Kill, Down, Tick, vars,
        rpc
    <3>. QED
      BY <3>1, <3>2, <3>3 DEF Next
  <2>. QED
    BY <2>1 DEF StoresTyped
<1>1. ASSUME UNCHANGED <<file, tmp, mem>> PROVE StoresTyped'
  BY <1>1, <1>r DEF StoresTyped
<1>2. ASSUME NEW p \in Process, OpenStore(p) PROVE StoresTyped'
  <2>1. EmptyMap \in PeersFile
    <3>1. EmptyMap \in [{} -> Peer]
      BY DEF EmptyMap
    <3>. QED
      BY <3>1 DEF PeersFile, Peer
  <2>2. /\ UNCHANGED <<file, tmp>>
        /\ mem' = [mem EXCEPT ![p] = IF file \in {NoFile, Torn} THEN EmptyMap ELSE file]
    BY <1>2 DEF OpenStore, files
  <2>. QED
    BY <1>0, <1>r, <2>1, <2>2 DEF StoresTyped
<1>3. ASSUME NEW d \in Device, Add(d) PROVE StoresTyped'
  <2>1. req[d].to \in Process /\ req[d].cert \in Peer
    BY <1>3 DEF Add, TypeInv, TypeOK, Peer
  <2>2. /\ UNCHANGED <<file, tmp>>
        /\ mem' = [mem EXCEPT ![req[d].to] = With(@, d, req[d].cert)]
    BY <1>3 DEF Add, files
  <2>3. With(mem[req[d].to], d, req[d].cert) \in PeersFile
    BY <2>1, WithPeer DEF StoresTyped
  <2>. QED
    BY <1>0, <1>r, <2>1, <2>2, <2>3 DEF StoresTyped
<1>4. ASSUME NEW d \in Device, WriteTmp(d) PROVE StoresTyped'
  <2>1. req[d].to \in Process
    BY <1>4 DEF WriteTmp, TypeInv, TypeOK
  <2>. QED
    BY <2>1, <1>4, <1>r DEF WriteTmp, StoresTyped, stores
<1>5. ASSUME NEW d \in Device, RenameTmp(d) PROVE StoresTyped'
  BY <1>5, <1>r DEF RenameTmp, StoresTyped
<1>6. CASE CodeExpires \/ Tick \/ UNCHANGED vars \/ \E p \in Process : Down(p)
  BY <1>6, <1>1 DEF CodeExpires, Tick, Down, vars, files, stores
<1>7. ASSUME NEW d \in Device, NEW r \in Request, Ask(d, r) PROVE StoresTyped'
  BY <1>7, <1>1 DEF Ask, files, stores
<1>8. ASSUME NEW d \in Device,
             \/ WrongCode(d) \/ Exhaust(d) \/ RightCode(d) \/ Claim(d) \/ Deny(d) \/ Approve(d)
             \/ Cancel(d) \/ NoPersist(d) \/ PersistFails(d) \/ Accept(d) \/ Receive(d)
             \/ Keep(d) \/ KeepFails(d)
      PROVE  StoresTyped'
  BY <1>8, <1>1 DEF WrongCode, Exhaust, RightCode, Claim, Deny, Approve, Cancel, NoPersist,
    PersistFails, NotPersisted, Accept, Receive, Keep, KeepFails, files, stores
<1>. QED
  BY <1>2, <1>3, <1>4, <1>5, <1>6, <1>7, <1>8
     DEF Next, Handle, Serve, PairMode, PairModeEnds, Kill, Process

\* A step of one request that touches neither stores nor promises.
LEMMA PromiseFrame ==
  ASSUME NEW d \in Device, NEW next
  PROVE  /\ TypeInv /\ Promised
         /\ UNCHANGED <<file, tmp, mem, up, homeless, trusted, promised, overlapped, req>>
         /\ pc' = [pc EXCEPT ![d] = next]
         /\ next \notin {"write", "rename", "added"}
         /\ next = "keep" => d \in promised
         /\ \A e \in Device \ {d} : reply'[e] = reply[e]
         /\ next = "replied" /\ reply'[d] = "accepted" => d \in promised
         => Promised'
<1>. SUFFICES ASSUME TypeInv, Promised, ~overlapped,
       UNCHANGED <<file, tmp, mem, up, homeless, trusted, promised, overlapped, req>>,
       pc' = [pc EXCEPT ![d] = next],
       next \notin {"write", "rename", "added"},
       next = "keep" => d \in promised,
       \A e \in Device \ {d} : reply'[e] = reply[e],
       next = "replied" /\ reply'[d] = "accepted" => d \in promised
     PROVE (Sole /\ OnItsWay /\ Told)'
  BY DEF Promised
<1>1. Sole'
  BY DEF Promised, Sole
<1>2. \A e \in Device : e # d => pc'[e] = pc[e]
  OBVIOUS
<1>3. pc'[d] = next
  BY DEF TypeInv, TypeOK
<1>4. OnItsWay'
  BY <1>2, <1>3 DEF Promised, OnItsWay, InStore, Paired
<1>5. Told'
  BY <1>2, <1>3 DEF Promised, Told, Paired
<1>. QED
  BY <1>1, <1>4, <1>5

\* A process that starts finds what was promised in the file; one that goes
\* down leaves it there.
LEMMA PromiseProcesses ==
  ASSUME NEW p \in Process
  PROVE  TypeInv /\ Promised /\ (OpenStore(p) \/ Down(p)) => Promised'
<1>. SUFFICES ASSUME TypeInv, Promised, OpenStore(p) \/ Down(p), ~overlapped'
              PROVE  (Sole /\ OnItsWay /\ Told)'
  BY DEF Promised
<1>0. ~overlapped /\ Sole /\ OnItsWay /\ Told
  <2>1. ~overlapped
    <3>1. overlapped' = overlapped \/ overlapped' = (overlapped \/ up # {})
      BY DEF OpenStore, Down, history
    <3>. QED
      BY <3>1
  <2>. QED
    BY <2>1 DEF Promised
<1>1. CASE OpenStore(p)
  <2>1. /\ UNCHANGED <<file, tmp, pc, req, reply, trusted, promised>>
        /\ up = {} /\ up' = {p}
        /\ mem'[p] = IF file \in {NoFile, Torn} THEN EmptyMap ELSE file
        /\ homeless' = IF file = Torn THEN homeless \cup {p} ELSE homeless \ {p}
    BY <1>1, <1>0 DEF OpenStore, files, rpc, TypeInv, Shapes
  <2>2. \A d \in Device : pc[d] \in {"idle", "keep"}
    BY <2>1 DEF TypeInv, TypeOK
  <2>3. Sole'
    BY <2>1 DEF Sole
  <2>4. OnItsWay'
    BY <2>1, <2>2 DEF OnItsWay, InStore
  <2>5. Told'
    BY <2>1, <1>0 DEF Told, Paired
  <2>. QED
    BY <2>3, <2>4, <2>5
<1>2. CASE Down(p)
  <2>1. /\ UNCHANGED <<file, tmp, mem, homeless, reply, trusted, promised>>
        /\ up' \subseteq up
        /\ \A d \in Device : \/ pc'[d] = pc[d] /\ req'[d] = req[d]
                             \/ pc'[d] = "idle"
    BY <1>2 DEF Down, files, history
  <2>2. Sole'
    BY <2>1, <1>0 DEF Sole
  <2>3. OnItsWay'
    BY <2>1, <1>0 DEF OnItsWay, InStore, Paired
  <2>4. Told'
    BY <2>1, <1>0 DEF Told, Paired
  <2>. QED
    BY <2>2, <2>3, <2>4
<1>. QED
  BY <1>1, <1>2

\* The steps outside the store, of a request that arrives or is under way.
LEMMA PromiseGates ==
  ASSUME NEW d \in Device
  PROVE  /\ TypeInv /\ Promised
         /\ StoresTyped
         /\ \/ \E r \in Request : Ask(d, r)
            \/ WrongCode(d) \/ Exhaust(d) \/ RightCode(d) \/ Claim(d) \/ Deny(d) \/ Approve(d)
            \/ Cancel(d) \/ NoPersist(d) \/ PersistFails(d)
            \/ Receive(d) \/ KeepFails(d)
         => Promised'
<1>. SUFFICES ASSUME TypeInv, Promised, StoresTyped
     PROVE  /\ \A r \in Request : Ask(d, r) => Promised'
            /\ \/ WrongCode(d) \/ Exhaust(d) \/ RightCode(d) \/ Claim(d) \/ Deny(d) \/ Approve(d)
               \/ Cancel(d) \/ NoPersist(d) \/ PersistFails(d) \/ Receive(d) \/ KeepFails(d)
               => Promised'
  OBVIOUS
<1>0. /\ pc \in [Device -> Steps] /\ req \in [Device -> Request \cup {NoRequest}]
      /\ reply = [e \in Device |-> reply[e]]
  BY DEF TypeInv, TypeOK, Shapes, StoresTyped
<1>1. ASSUME NEW r \in Request, Ask(d, r) PROVE Promised'
  <2>1. UNCHANGED <<file, tmp, mem, up, homeless, trusted, promised, overlapped>>
    BY <1>1 DEF Ask, files, stores
  <2>2. /\ pc[d] = "idle" /\ req' = [req EXCEPT ![d] = r]
        /\ \E next \in {"verify", "claim", "replied"} : pc' = [pc EXCEPT ![d] = next]
        /\ reply' = reply \/ reply' = [reply EXCEPT ![d] = "rejected"]
        /\ pc'[d] = "replied" => reply' = [reply EXCEPT ![d] = "rejected"]
    BY <1>1, <1>0 DEF Ask, Answer, Goto
  <2>3. \A e \in Device : e # d => pc'[e] = pc[e] /\ req'[e] = req[e] /\ reply'[e] = reply[e]
    BY <2>2, <1>0
  <2>4. pc'[d] \in {"verify", "claim", "replied"}
    BY <2>2, <1>0
  <2>5. pc'[d] = "replied" => reply'[d] # "accepted"
    BY <2>2, <1>0
  <2>6. ASSUME ~overlapped PROVE (Sole /\ OnItsWay /\ Told)'
    <3>1. Sole'
      BY <2>1, <2>6 DEF Promised, Sole
    <3>2. OnItsWay'
      BY <2>1, <2>3, <2>4, <2>6 DEF Promised, OnItsWay, InStore, Paired
    <3>3. Told'
      BY <2>1, <2>3, <2>4, <2>5, <2>6 DEF Promised, Told, Paired
    <3>. QED
      BY <3>1, <3>2, <3>3
  <2>. QED
    BY <2>1, <2>6 DEF Promised
<1>2. ASSUME \/ WrongCode(d) \/ Exhaust(d) \/ RightCode(d) \/ Claim(d) \/ Deny(d)
             \/ Approve(d) \/ Cancel(d) \/ NoPersist(d) \/ PersistFails(d)
      PROVE  Promised'
  <2>1. UNCHANGED <<file, tmp, mem, up, homeless, trusted, promised, overlapped, req>>
    BY <1>2 DEF WrongCode, Exhaust, RightCode, Claim, Deny, Approve, Cancel, NoPersist,
      PersistFails, NotPersisted, files, stores, rpc, history
  <2>2. /\ \E next \in {"exhaust", "replied", "add", "dialog", "idle"} :
             pc' = [pc EXCEPT ![d] = next]
        /\ reply' = reply \/ \E r \in {"rejected", "error"} : reply' = [reply EXCEPT ![d] = r]
        /\ pc'[d] = "replied" =>
             \E r \in {"rejected", "error"} : reply' = [reply EXCEPT ![d] = r]
    BY <1>2, <1>0 DEF WrongCode, Exhaust, RightCode, Claim, Deny, Approve, Cancel, NoPersist,
      PersistFails, NotPersisted, Answer, Goto
  <2>3. PICK next \in {"exhaust", "replied", "add", "dialog", "idle"} :
             pc' = [pc EXCEPT ![d] = next]
    BY <2>2
  <2>4. next = "replied" => reply'[d] # "accepted"
    BY <2>2, <2>3, <1>0
  <2>5. \A e \in Device \ {d} : reply'[e] = reply[e]
    BY <2>2, <1>0
  <2>. QED
    BY <2>1, <2>3, <2>4, <2>5, PromiseFrame
<1>3. ASSUME Receive(d) \/ KeepFails(d) PROVE Promised'
  <2>1. UNCHANGED <<file, tmp, mem, up, homeless, trusted, promised, overlapped, req, reply>>
    BY <1>3 DEF Receive, KeepFails, files, stores, rpc, history
  <2>2. \/ pc' = [pc EXCEPT ![d] = "idle"]
        \/ /\ pc' = [pc EXCEPT ![d] = "keep"]
           /\ pc[d] = "replied" /\ reply[d] = "accepted"
    BY <1>3 DEF Receive, KeepFails, Goto
  <2>3. CASE overlapped
    BY <2>1, <2>3 DEF Promised
  <2>4. CASE ~overlapped
    <3>1. pc[d] = "replied" /\ reply[d] = "accepted" => d \in promised
      BY <2>4 DEF Promised, Told
    <3>. QED
      BY <2>1, <2>2, <3>1, PromiseFrame
  <2>. QED
    BY <2>3, <2>4
<1>. QED
  BY <1>1, <1>2, <1>3

\* Storing a peer, telling its device, and the device's keeping of it.
LEMMA PromiseStore ==
  ASSUME NEW d \in Device
  PROVE  /\ TypeInv /\ StoresTyped /\ Promised
         /\ Add(d) \/ WriteTmp(d) \/ RenameTmp(d) \/ Accept(d) \/ Keep(d)
         => Promised'
<1>. SUFFICES ASSUME TypeInv, StoresTyped, Promised, ~overlapped,
                     Add(d) \/ WriteTmp(d) \/ RenameTmp(d) \/ Accept(d) \/ Keep(d)
              PROVE  (Sole /\ OnItsWay /\ Told)'
  BY DEF Promised, Add, WriteTmp, RenameTmp, Accept, Keep, history
<1>. DEFINE p == req[d].to
<1>0. /\ pc \in [Device -> Steps] /\ Sole /\ OnItsWay /\ Told
      /\ UNCHANGED <<up, homeless, req>>
  BY DEF Promised, TypeInv, TypeOK, Add, WriteTmp, RenameTmp, Accept, Keep, stores, rpc
<1>1. \A e \in Device : /\ e # d => pc'[e] = pc[e]
                        /\ e # d => reply'[e] = reply[e]
  BY <1>0 DEF StoresTyped, rpc, Add, WriteTmp, RenameTmp, Accept, Keep, Goto, Answer
<1>2. ASSUME pc[d] \in {"write", "rename"}, NEW e \in Device, e # d PROVE ~InStore(e)
  <2>1. p \in up /\ writing[p] = d
    BY <1>2 DEF TypeInv, TypeOK, InStore
  <2>. QED
    BY <2>1, <1>0, <1>2 DEF TypeInv, TypeOK, InStore, Sole
<1>3. CASE Add(d)
  <2>1. /\ UNCHANGED <<file, tmp, trusted, promised, reply>>
        /\ mem' = [mem EXCEPT ![p] = With(@, d, req[d].cert)]
        /\ pc'[d] = "write" /\ p \in up /\ p \in Process /\ writing[p] = Nobody
    BY <1>3, <1>0 DEF Add, Goto, files, history, TypeInv, TypeOK
  <2>2. \A e \in Device : ~InStore(e)
    BY <2>1, <1>0, PairingAssumption DEF TypeInv, TypeOK, Sole, InStore
  <2>3. mem'[p] = With(mem[p], d, req[d].cert)
    BY <2>1 DEF TypeInv, Shapes
  <2>4. DOMAIN mem'[p] = DOMAIN mem[p] \cup {d}
    BY <2>3 DEF With
  <2>5. Sole'
    BY <2>1, <2>4, <1>0 DEF Sole
  <2>6. OnItsWay'
    BY <2>1, <2>2, <2>4, <1>0, <1>1 DEF OnItsWay, InStore, Paired
  <2>7. Told'
    BY <2>1, <1>0, <1>1 DEF Told, Paired
  <2>. QED
    BY <2>5, <2>6, <2>7
<1>4. CASE WriteTmp(d)
  <2>1. /\ UNCHANGED <<file, mem, trusted, promised, reply>> /\ tmp' = mem[p]
        /\ p \notin homeless /\ pc[d] = "write" /\ pc'[d] = "rename"
    BY <1>4, <1>0 DEF WriteTmp, Goto, stores, history
  <2>2. Sole' /\ Told'
    BY <2>1, <1>0, <1>1 DEF Sole, Told, Paired
  <2>3. OnItsWay'
    BY <2>1, <1>0, <1>1, <1>2 DEF OnItsWay, InStore, Paired
  <2>. QED
    BY <2>2, <2>3
<1>5. CASE RenameTmp(d)
  <2>1. /\ UNCHANGED <<mem, trusted, promised, reply>> /\ file' = tmp
        /\ pc[d] = "rename" /\ pc'[d] = "added" /\ p \in up
    BY <1>5, <1>0 DEF RenameTmp, Goto, history, TypeInv, TypeOK
  <2>2. file' = mem[p] /\ p \notin homeless /\ d \in DOMAIN mem[p] /\ p \in Process
    BY <2>1, <1>0 DEF OnItsWay, InStore, TypeInv, TypeOK
  <2>3. file' \notin {NoFile, Torn}
    BY <2>2, FileAssumption DEF StoresTyped
  <2>4. file \notin {NoFile, Torn} => DOMAIN file \subseteq DOMAIN file'
    BY <2>1, <2>2, <1>0 DEF Sole
  <2>5. \A e \in Device : Paired(e) => Paired(e)'
    BY <2>3, <2>4 DEF Paired
  <2>6. Paired(d)'
    BY <2>2, <2>3 DEF Paired
  <2>7. Told'
    BY <2>1, <2>3, <2>4, <1>0, <1>1 DEF Told, Paired
  <2>8. Sole'
    BY <2>1, <2>2, <1>0 DEF Sole
  <2>9. OnItsWay'
    BY <2>1, <2>5, <2>6, <1>0, <1>1, <1>2 DEF OnItsWay, InStore
  <2>. QED
    BY <2>7, <2>8, <2>9
<1>6. CASE Accept(d)
  <2>1. /\ UNCHANGED <<file, tmp, mem, trusted>> /\ promised' = promised \cup {d}
        /\ pc[d] = "added" /\ pc'[d] = "replied"
        /\ reply' = [reply EXCEPT ![d] = "accepted"]
    BY <1>6, <1>0 DEF Accept, Persisted, Answer, Goto, files, stores, history
  <2>2. Sole' /\ OnItsWay'
    BY <2>1, <1>0, <1>1 DEF Sole, OnItsWay, InStore, Paired
  <2>3. Told'
    BY <2>1, <1>0, <1>1 DEF Told, OnItsWay, Paired
  <2>. QED
    BY <2>2, <2>3
<1>7. CASE Keep(d)
  <2>1. /\ UNCHANGED <<file, tmp, mem, promised, reply>> /\ trusted' = trusted \cup {d}
        /\ pc[d] = "keep" /\ pc'[d] = "idle"
    BY <1>7, <1>0 DEF Keep, Goto, files, stores, history
  <2>. QED
    BY <2>1, <1>0, <1>1 DEF Sole, OnItsWay, Told, InStore, Paired
<1>. QED
  BY <1>3, <1>4, <1>5, <1>6, <1>7

\* Every step keeps what was promised.
LEMMA PromiseNext == TypeInv /\ StoresTyped /\ Promised /\ [Next]_vars => Promised'
<1>. SUFFICES ASSUME TypeInv, StoresTyped, Promised, [Next]_vars PROVE Promised'
  OBVIOUS
<1>1. CASE CodeExpires \/ Tick \/ UNCHANGED vars
  <2>1. UNCHANGED <<file, tmp, mem, up, homeless, trusted, promised, overlapped, req, pc, reply>>
    BY <1>1 DEF CodeExpires, Tick, vars, files, stores, rpc, history
  <2>. QED
    BY <2>1 DEF Promised, Sole, OnItsWay, Told, InStore, Paired
<1>2. CASE Serve \/ PairMode \/ PairModeEnds \/ \E p \in Process : Kill(p)
  BY <1>2, PromiseProcesses DEF Serve, PairMode, PairModeEnds, Kill, Process
<1>3. ASSUME NEW d \in Device,
             \/ \E r \in Request : Ask(d, r)
             \/ Handle(d) \/ Approve(d) \/ Cancel(d) \/ PersistFails(d)
             \/ Receive(d) \/ Keep(d) \/ KeepFails(d)
      PROVE  Promised'
  BY <1>3, PromiseGates, PromiseStore DEF Handle
<1>. QED
  BY <1>1, <1>2, <1>3 DEF Next

-----------------------------------------------------------------------------
(* Attempts.                                                                *)

\* A table of a limiter: what it has counted, in windows that have begun.
Fits(l, t, max) ==
  /\ l = [attempts |-> l.attempts, due |-> l.due]
  /\ l.attempts \in [DOMAIN l.attempts -> [count : 1..max, first : 0..t]]

\* Of two tables, the second has nothing that the first has not, and only
\* attempts whose window is over are gone.
Forgets(l, m, t) ==
  \A ip : /\ ip \in DOMAIN m.attempts =>
               ip \in DOMAIN l.attempts /\ m.attempts[ip] = l.attempts[ip]
          /\ ip \in DOMAIN l.attempts \ DOMAIN m.attempts => ~InWindow(l.attempts[ip], t)

\* A sweep forgets windows that are over, and nothing else.
LEMMA SweepForgets ==
  ASSUME NEW l, NEW t \in Nat, NEW max \in Nat, Fits(l, t, max)
  PROVE  Fits(Sweep(l, t), t, max) /\ Forgets(l, Sweep(l, t), t)
<1>. DEFINE kept == DOMAIN l.attempts \ {ip \in DOMAIN l.attempts : ~InWindow(l.attempts[ip], t)}
<1>1. Sweep(l, t).attempts = [ip \in kept |-> l.attempts[ip]]
  BY DEF Sweep, Without
<1>2. Sweep(l, t) = [attempts |-> Sweep(l, t).attempts, due |-> Sweep(l, t).due]
  BY DEF Sweep
<1>3. \A ip \in kept : l.attempts[ip] \in [count : 1..max, first : 0..t]
  BY DEF Fits
<1>. HIDE DEF kept
<1>4. Fits(Sweep(l, t), t, max)
  BY <1>1, <1>2, <1>3 DEF Fits
<1>5. Forgets(l, Sweep(l, t), t)
  BY <1>1 DEF Forgets, kept
<1>. QED
  BY <1>4, <1>5

\* So do the sweeps of a check together.
LEMMA SweptForgets ==
  ASSUME NEW l, NEW ip, NEW t \in Nat, NEW max \in Nat, Fits(l, t, max)
  PROVE  Fits(Swept(l, ip, t), t, max) /\ Forgets(l, Swept(l, ip, t), t)
<1>. DEFINE regular == IF t >= l.due THEN Sweep(l, t) ELSE l
<1>1. Fits(regular, t, max) /\ Forgets(l, regular, t)
  <2>1. Forgets(l, l, t)
    BY DEF Forgets
  <2>. QED
    BY <2>1, SweepForgets
<1>2. Fits(Sweep(regular, t), t, max) /\ Forgets(regular, Sweep(regular, t), t)
  BY <1>1, SweepForgets
<1>3. Swept(l, ip, t) \in {regular, Sweep(regular, t)}
  BY DEF Swept
<1>. HIDE DEF regular
<1>4. Forgets(l, Sweep(regular, t), t)
  BY <1>1, <1>2 DEF Forgets
<1>. QED
  BY <1>1, <1>2, <1>3, <1>4

\* What a check that lets an attempt in makes of a table: it is counted in its
\* window, or begins one when there is none or it is over; of the other addresses
\* only what is over is forgotten.
CountsIn(old, seen, ip, t) ==
  /\ ip \in DOMAIN seen
  /\ \/ /\ ip \in DOMAIN old /\ InWindow(old[ip], t)
        /\ seen[ip] = Attempt(old[ip].count + 1, old[ip].first)
     \/ /\ ip \in DOMAIN old => ~InWindow(old[ip], t)
        /\ seen[ip] = Attempt(1, t)
  /\ \A j : j # ip =>
       /\ j \in DOMAIN seen => j \in DOMAIN old /\ seen[j] = old[j]
       /\ j \in DOMAIN old \ DOMAIN seen => ~InWindow(old[j], t)

\* A check counts what it lets in, and of what it refuses only forgets.
LEMMA CheckCounts ==
  ASSUME NEW l, NEW ip, NEW t \in Nat, NEW max \in Nat \ {0}, Fits(l, t, max),
         NEW check, check = Check(l, ip, t, max)
  PROVE  /\ Fits(check.limiter, t, max)
         /\ ~check.allowed => Forgets(l, check.limiter, t)
         /\ check.allowed => CountsIn(l.attempts, check.limiter.attempts, ip, t)
<1>. DEFINE s == Swept(l, ip, t)
            seen == check.limiter.attempts
            entry == IF ip \in DOMAIN s.attempts /\ InWindow(s.attempts[ip], t)
                     THEN Attempt(s.attempts[ip].count + 1, s.attempts[ip].first)
                     ELSE Attempt(1, t)
<1>1. Fits(s, t, max) /\ Forgets(l, s, t)
  BY SweptForgets
<1>2. /\ check.allowed = Allowed(s, ip, t, max)
      /\ check.limiter = IF Allowed(s, ip, t, max) THEN Counted(s, ip, t) ELSE s
  BY DEF Check
<1>. HIDE DEF s
<1>3. Counted(s, ip, t) = [attempts |-> With(s.attempts, ip, entry), due |-> s.due]
  BY <1>1 DEF Counted, Fits
<1>4. CASE ~Allowed(s, ip, t, max)
  BY <1>1, <1>2, <1>4
<1>5. CASE Allowed(s, ip, t, max)
  <2>1. seen = With(s.attempts, ip, entry)
    BY <1>2, <1>3, <1>5
  <2>2. entry \in [count : 1..max, first : 0..t]
    <3>1. CASE ip \in DOMAIN s.attempts /\ InWindow(s.attempts[ip], t)
      <4>1. s.attempts[ip] \in [count : 1..max, first : 0..t]
        BY <1>1, <3>1 DEF Fits
      <4>2. s.attempts[ip].count < max
        BY <1>5, <3>1 DEF Allowed
      <4>3. s.attempts[ip].count + 1 \in 1..max /\ s.attempts[ip].first \in 0..t
        BY <4>1, <4>2
      <4>. QED
        BY <3>1, <4>3 DEF Attempt
    <3>2. CASE ~(ip \in DOMAIN s.attempts /\ InWindow(s.attempts[ip], t))
      BY <3>2 DEF Attempt
    <3>. QED
      BY <3>1, <3>2
  <2>3. \A j \in DOMAIN s.attempts : s.attempts[j] \in [count : 1..max, first : 0..t]
    BY <1>1 DEF Fits
  <2>4. /\ DOMAIN seen = DOMAIN s.attempts \cup {ip}
        /\ seen[ip] = entry
        /\ \A j \in DOMAIN s.attempts : j # ip => seen[j] = s.attempts[j]
    BY <2>1 DEF With
  <2>5. /\ \/ /\ ip \in DOMAIN l.attempts /\ InWindow(l.attempts[ip], t)
              /\ entry = Attempt(l.attempts[ip].count + 1, l.attempts[ip].first)
           \/ /\ ip \in DOMAIN l.attempts => ~InWindow(l.attempts[ip], t)
              /\ entry = Attempt(1, t)
    <3>1. CASE ip \in DOMAIN s.attempts /\ InWindow(s.attempts[ip], t)
      BY <1>1, <3>1 DEF Forgets
    <3>2. CASE ~(ip \in DOMAIN s.attempts /\ InWindow(s.attempts[ip], t))
      BY <1>1, <3>2 DEF Forgets
    <3>. QED
      BY <3>1, <3>2
  <2>. HIDE DEF entry
  <2>6. Fits(check.limiter, t, max)
    <3>1. check.limiter = [attempts |-> seen, due |-> s.due]
      BY <1>2, <1>3, <1>5, <2>1
    <3>2. seen \in [DOMAIN s.attempts \cup {ip} -> [count : 1..max, first : 0..t]]
      BY <2>1, <2>2, <2>3 DEF With
    <3>. HIDE DEF seen
    <3>. QED
      BY <3>1, <3>2 DEF Fits
  <2>7. \A j : j # ip =>
          /\ j \in DOMAIN seen => j \in DOMAIN l.attempts /\ seen[j] = l.attempts[j]
          /\ j \in DOMAIN l.attempts \ DOMAIN seen => ~InWindow(l.attempts[j], t)
    <3>. HIDE DEF seen
    <3>. QED
      BY <1>1, <2>4 DEF Forgets
  <2>8. check.allowed
    BY <1>2, <1>5
  <2>. HIDE DEF seen
  <2>9. CountsIn(l.attempts, seen, ip, t)
    BY <2>4, <2>5, <2>7 DEF CountsIn
  <2>. QED
    BY <2>6, <2>8, <2>9 DEF seen
<1>. QED
  BY <1>4, <1>5

LimitersFit ==
  /\ limiter = [p \in Process |-> limiter[p]]
  /\ \A p \in Process : Fits(limiter[p], now, MaxAttempts[p])

\* What was let in: in a window that had begun and was not over, and counted.
Entered(a) ==
  /\ a.to \in Process /\ a.ip \in Device
  /\ a.at \in Nat /\ a.first \in Nat /\ a.nth \in 1..MaxAttempts[a.to]
  /\ a.first <= a.at /\ a.at < a.first + Window /\ a.at <= now

\* The windows of an address: two that differ do not overlap, and within one
\* no number is given twice.
Apart(a, b) ==
  a.to = b.to /\ a.ip = b.ip =>
    /\ a.first = b.first /\ a.nth = b.nth => a = b
    /\ a.first < b.first => a.first + Window <= b.first

\* Its window is the one the table has, or it is over, and was when that began.
Counts(a) ==
  LET seen == limiter[a.to].attempts
  IN \/ a.ip \in DOMAIN seen /\ seen[a.ip].first = a.first /\ a.nth <= seen[a.ip].count
     \/ /\ a.first + Window <= now
        /\ a.ip \in DOMAIN seen => a.first + Window <= seen[a.ip].first

Tracked ==
  /\ LimitersFit
  /\ \A a \in admitted : Entered(a)
  /\ \A a, b \in admitted : a.ip \notin promised => Apart(a, b)
  /\ \A a \in admitted : a.ip \notin promised => Counts(a)

\* A request that is let in is counted apart from those before it.
LEMMA TrackedAsk ==
  ASSUME NEW d \in Device, NEW r \in Request
  PROVE  TypeInv /\ Tracked /\ Ask(d, r) => Tracked'
<1>. SUFFICES ASSUME TypeInv, Tracked, Ask(d, r) PROVE Tracked'
  OBVIOUS
<1>. DEFINE p == r.to
            old == limiter[p].attempts
<1>0. PICK check : check = Check(limiter[p], d, now, MaxAttempts[p])
  OBVIOUS
<1>. DEFINE seen == check.limiter.attempts
<1>1. /\ p \in Process /\ now \in Nat /\ MaxAttempts[p] \in Nat \ {0} /\ Window \in Nat \ {0}
      /\ UNCHANGED <<now, promised>>
  BY PairingAssumption, LimiterAssumption DEF Ask, TypeInv, Shapes
<1>2. CASE UNCHANGED <<limiter, admitted>>
  BY <1>1, <1>2 DEF Tracked, LimitersFit, Entered, Apart, Counts
<1>3. CASE /\ limiter' = [limiter EXCEPT ![p] = check.limiter]
           /\ check.allowed =>
                admitted' = admitted \cup {[to |-> p, ip |-> d, at |-> now,
                                          nth |-> seen[d].count, first |-> seen[d].first]}
           /\ ~check.allowed => admitted' = admitted
  <2>1. Fits(limiter[p], now, MaxAttempts[p])
    BY <1>1 DEF Tracked, LimitersFit
  <2>2. /\ Fits(check.limiter, now, MaxAttempts[p])
        /\ ~check.allowed => Forgets(limiter[p], check.limiter, now)
        /\ check.allowed => CountsIn(old, seen, d, now)
    BY <1>0, <1>1, <2>1, CheckCounts
  <2>3. /\ limiter'[p] = check.limiter /\ limiter'[p].attempts = seen
        /\ \A q \in Process : q # p => limiter'[q] = limiter[q]
        /\ limiter' = [q \in Process |-> limiter'[q]]
    BY <1>1, <1>3 DEF Tracked, LimitersFit
  <2>4. LimitersFit'
    BY <1>1, <2>2, <2>3 DEF Tracked, LimitersFit
  <2>5. \A j \in DOMAIN old : /\ old[j].count \in 1..MaxAttempts[p] /\ old[j].first \in 0..now
    BY <2>1 DEF Fits
  <2>6. ASSUME NEW a \in admitted, a.ip \notin promised, a.ip = d => ~check.allowed
        PROVE  Counts(a)'
    <3>1. Entered(a) /\ Counts(a)
      BY <2>6 DEF Tracked
    <3>2. CASE a.to # p
      BY <1>1, <2>3, <3>1, <3>2 DEF Entered, Counts
    <3>3. CASE a.to = p
      <4>1. /\ a.ip \in DOMAIN seen => a.ip \in DOMAIN old /\ seen[a.ip] = old[a.ip]
            /\ a.ip \in DOMAIN old \ DOMAIN seen => ~InWindow(old[a.ip], now)
        BY <2>2, <2>6 DEF Forgets, CountsIn
      <4>2. \/ a.ip \in DOMAIN old /\ old[a.ip].first = a.first /\ a.nth <= old[a.ip].count
            \/ /\ a.first + Window <= now
               /\ a.ip \in DOMAIN old => a.first + Window <= old[a.ip].first
        BY <3>1, <3>3 DEF Counts
      <4>. HIDE DEF seen, old
      <4>3. \/ a.ip \in DOMAIN seen /\ seen[a.ip].first = a.first /\ a.nth <= seen[a.ip].count
            \/ /\ a.first + Window <= now
               /\ a.ip \in DOMAIN seen => a.first + Window <= seen[a.ip].first
        <5>1. CASE a.ip \in DOMAIN old /\ old[a.ip].first = a.first /\ a.nth <= old[a.ip].count
          <6>1. CASE a.ip \in DOMAIN seen
            BY <4>1, <5>1, <6>1
          <6>2. CASE a.ip \notin DOMAIN seen
            BY <1>1, <2>5, <3>1, <4>1, <5>1, <6>2 DEF InWindow, Entered
          <6>. QED
            BY <6>1, <6>2
        <5>2. CASE /\ a.first + Window <= now
                   /\ a.ip \in DOMAIN old => a.first + Window <= old[a.ip].first
          BY <4>1, <5>2
        <5>. QED
          BY <4>2, <5>1, <5>2
      <4>. QED
        BY <1>1, <2>3, <3>3, <4>3 DEF Counts
    <3>. QED
      BY <3>2, <3>3
  <2>7. CASE ~check.allowed
    BY <1>1, <1>3, <2>4, <2>6, <2>7 DEF Tracked, Entered, Apart
  <2>8. CASE check.allowed
    <3>1. PICK new : /\ admitted' = admitted \cup {new}
                     /\ new = [to |-> p, ip |-> d, at |-> now,
                               nth |-> seen[d].count, first |-> seen[d].first]
      BY <1>3, <2>8
    <3>2. seen[d].count \in 1..MaxAttempts[p] /\ seen[d].first \in 0..now
      BY <2>2, <2>8 DEF Fits, CountsIn
    <3>3. /\ new.to = p /\ new.ip = d /\ new.at = now
          /\ new.nth = seen[d].count /\ new.first = seen[d].first
      BY <3>1
    <3>4. now < seen[d].first + Window
      <4>1. \/ d \in DOMAIN old /\ InWindow(old[d], now) /\ seen[d].first = old[d].first
            \/ seen[d].first = now
        BY <2>2, <2>8 DEF Attempt, CountsIn
      <4>. HIDE DEF seen, old
      <4>. QED
        BY <1>1, <2>5, <4>1, SMTT(30) DEF InWindow
    <3>5. Entered(new)
      BY <1>1, <3>2, <3>3, <3>4 DEF Entered
    <3>6. Counts(new)'
      <4>1. /\ d \in DOMAIN limiter'[new.to].attempts
            /\ limiter'[new.to].attempts[new.ip] = seen[d]
        BY <2>2, <2>3, <2>8, <3>3 DEF CountsIn
      <4>. QED
        BY <3>2, <3>3, <4>1 DEF Counts
    <3>7. ASSUME NEW a \in admitted, a.ip = d, a.to = p, d \notin promised
          PROVE  \/ a.first = new.first /\ a.nth < new.nth
                 \/ a.first + Window <= new.first
      <4>1. Entered(a) /\ Counts(a)
        BY <3>7 DEF Tracked
      <4>2. \/ d \in DOMAIN old /\ old[d].first = a.first /\ a.nth <= old[d].count
            \/ /\ a.first + Window <= now
               /\ d \in DOMAIN old => a.first + Window <= old[d].first
        BY <4>1, <3>7 DEF Counts
      <4>3. CASE /\ d \in DOMAIN old /\ InWindow(old[d], now)
                 /\ seen[d] = Attempt(old[d].count + 1, old[d].first)
        <5>1. new.first = old[d].first /\ new.nth = old[d].count + 1
          BY <3>3, <4>3 DEF Attempt
        <5>. QED
          BY <1>1, <2>5, <4>1, <4>2, <4>3, <5>1, SMTT(30) DEF Entered
      <4>4. CASE /\ d \in DOMAIN old => ~InWindow(old[d], now)
                 /\ seen[d] = Attempt(1, now)
        <5>1. new.first = now
          BY <3>3, <4>4 DEF Attempt
        <5>. QED
          BY <1>1, <2>5, <4>1, <4>2, <4>4, <5>1 DEF Entered, InWindow
      <4>. QED
        BY <2>2, <2>8, <4>3, <4>4 DEF CountsIn
    <3>8. ASSUME NEW a \in admitted, a.ip \notin promised \/ d \notin promised
          PROVE  Apart(a, new) /\ Apart(new, a)
      <4>1. Entered(a)
        BY DEF Tracked
      <4>. QED
        BY <1>1, <3>2, <3>3, <3>7, <3>8, <4>1 DEF Apart, Entered
    <3>9. \A a, b \in admitted' : a.ip \notin promised' => Apart(a, b)
      <4>1. Apart(new, new)
        BY <1>1, <3>2, <3>3 DEF Apart
      <4>. QED
        BY <1>1, <3>1, <3>3, <3>8, <4>1 DEF Tracked
    <3>10. ASSUME NEW a \in admitted, a.ip \notin promised PROVE Counts(a)'
      <4>1. CASE a.ip # d \/ a.to # p
        <5>1. CASE a.to # p
          <6>1. Entered(a) /\ Counts(a)
            BY <3>10 DEF Tracked
          <6>. QED
            BY <1>1, <2>3, <5>1, <6>1 DEF Entered, Counts
        <5>2. CASE a.ip # d
          BY <2>6, <3>10, <5>2
        <5>. QED
          BY <4>1, <5>1, <5>2
      <4>2. CASE a.ip = d /\ a.to = p
        <5>1. \/ a.first = new.first /\ a.nth < new.nth
              \/ a.first + Window <= new.first
          BY <3>7, <3>10, <4>2
        <5>2. Entered(a)
          BY DEF Tracked
        <5>3. /\ d \in DOMAIN limiter'[p].attempts
              /\ limiter'[p].attempts[d].count = new.nth
              /\ limiter'[p].attempts[d].first = new.first
              /\ new.nth \in Nat /\ new.first \in Nat /\ new.first <= now
          BY <1>1, <2>2, <2>3, <2>8, <3>2, <3>3 DEF CountsIn
        <5>4. a.nth \in Nat /\ a.first \in Nat
          BY <5>2 DEF Entered
        <5>. HIDE DEF seen, p
        <5>5. \/ limiter'[p].attempts[d].first = a.first /\ a.nth <= limiter'[p].attempts[d].count
              \/ a.first + Window <= now /\ a.first + Window <= limiter'[p].attempts[d].first
          BY <1>1, <5>1, <5>3, <5>4
        <5>. QED
          BY <1>1, <4>2, <5>3, <5>5 DEF Counts
      <4>. QED
        BY <4>1, <4>2
    <3>11. \A a \in admitted' : Entered(a)'
      BY <1>1, <3>1, <3>5 DEF Tracked, Entered
    <3>12. LimitersFit' /\ (\A a \in admitted' : a.ip \notin promised' => Counts(a)')
      BY <1>1, <2>4, <3>1, <3>6, <3>10
    <3>. QED
      BY <3>9, <3>11, <3>12 DEF Tracked, Apart
  <2>. QED
    BY <2>7, <2>8
<1>. QED
  BY <1>0, <1>2, <1>3 DEF Ask

\* Every step keeps the attempts tracked: a process that starts has a new
\* limiter and a new history, and a device that succeeds is out of both.
LEMMA TrackedNext == TypeInv /\ Tracked /\ [Next]_vars => Tracked'
<1>. SUFFICES ASSUME TypeInv, Tracked, [Next]_vars PROVE Tracked'
  OBVIOUS
<1>0. now \in Nat /\ Window \in Nat \ {0}
  BY LimiterAssumption DEF TypeInv, Shapes
<1>1. ASSUME UNCHANGED <<limiter, admitted, promised, now>> PROVE Tracked'
  BY <1>1 DEF Tracked, LimitersFit, Entered, Apart, Counts
<1>2. ASSUME NEW p \in Process, OpenStore(p) PROVE Tracked'
  <2>1. /\ limiter' = [limiter EXCEPT ![p] = NewLimiter]
        /\ admitted' = {a \in admitted : a.to # p}
        /\ UNCHANGED <<now, promised>>
    BY <1>2 DEF OpenStore
  <2>2. Fits(NewLimiter, now, MaxAttempts[p])
    BY DEF Fits, NewLimiter, EmptyMap
  <2>3. LimitersFit'
    BY <2>1, <2>2 DEF Tracked, LimitersFit
  <2>4. \A q \in Process : q # p => limiter'[q] = limiter[q]
    BY <2>1 DEF Tracked, LimitersFit
  <2>5. \A a \in admitted' : Entered(a)'
    BY <2>1 DEF Tracked, Entered
  <2>6. \A a, b \in admitted' : a.ip \notin promised' => Apart(a, b)'
    BY <2>1 DEF Tracked, Apart
  <2>7. \A a \in admitted' : a.ip \notin promised' => Counts(a)'
    BY <2>1, <2>4 DEF Tracked, Entered, Counts
  <2>. QED
    BY <2>3, <2>5, <2>6, <2>7 DEF Tracked
<1>3. CASE Tick
  <2>1. now' = now + 1 /\ UNCHANGED <<limiter, admitted, promised>>
    BY <1>3 DEF Tick, gates, history
  <2>2. ASSUME NEW p \in Process PROVE Fits(limiter[p], now', MaxAttempts[p])
    <3>1. Fits(limiter[p], now, MaxAttempts[p]) /\ 0..now \subseteq 0..now'
      BY <1>0, <2>1 DEF Tracked, LimitersFit
    <3>. QED
      BY <3>1 DEF Fits
  <2>3. LimitersFit'
    BY <2>1, <2>2 DEF Tracked, LimitersFit
  <2>4. \A a \in admitted : Entered(a)'
    BY <1>0, <2>1 DEF Tracked, Entered
  <2>5. \A a \in admitted : a.ip \notin promised => Counts(a)'
    BY <1>0, <2>1 DEF Tracked, Entered, Counts
  <2>6. \A a, b \in admitted : a.ip \notin promised => Apart(a, b)'
    BY DEF Tracked, Apart
  <2>. QED
    BY <2>1, <2>3, <2>4, <2>5, <2>6 DEF Tracked
<1>4. ASSUME NEW d \in Device, Accept(d) PROVE Tracked'
  <2>. DEFINE p == req[d].to
  <2>1. /\ UNCHANGED <<admitted, now>> /\ promised' = promised \cup {d}
        /\ limiter' = IF p = "pair" THEN [limiter EXCEPT ![p] = Cleared(@, d)] ELSE limiter
        /\ p \in Process
    BY <1>4 DEF Accept, Persisted, TypeInv, TypeOK
  <2>2. CASE limiter' = limiter
    BY <2>1, <2>2 DEF Tracked, LimitersFit, Entered, Apart, Counts
  <2>3. CASE limiter' = [limiter EXCEPT ![p] = Cleared(@, d)]
    <3>1. Fits(limiter[p], now, MaxAttempts[p])
      BY <2>1 DEF Tracked, LimitersFit
    <3>2. /\ limiter'[p] = [attempts |-> Without(limiter[p].attempts, {d}), due |-> limiter[p].due]
          /\ \A q \in Process : q # p => limiter'[q] = limiter[q]
          /\ limiter' = [q \in Process |-> limiter'[q]]
      BY <2>1, <2>3, <3>1 DEF Tracked, LimitersFit, Cleared, Fits
    <3>3. Fits(limiter'[p], now, MaxAttempts[p])
      BY <3>1, <3>2, SMTT(30) DEF Fits, Without
    <3>4. LimitersFit'
      BY <2>1, <3>2, <3>3 DEF Tracked, LimitersFit
    <3>5. /\ DOMAIN limiter'[p].attempts = DOMAIN limiter[p].attempts \ {d}
          /\ \A ip \in DOMAIN limiter[p].attempts \ {d} :
               limiter'[p].attempts[ip] = limiter[p].attempts[ip]
      BY <3>2 DEF Without
    <3>6. \A a \in admitted : a.ip \notin promised' => Counts(a)'
      <4>. SUFFICES ASSUME NEW a \in admitted, a.ip \notin promised' PROVE Counts(a)'
        OBVIOUS
      <4>1. a.to \in Process /\ a.ip # d /\ Counts(a)
        BY <2>1 DEF Tracked, Entered
      <4>2. /\ a.ip \in DOMAIN limiter'[a.to].attempts <=> a.ip \in DOMAIN limiter[a.to].attempts
            /\ a.ip \in DOMAIN limiter[a.to].attempts =>
                 limiter'[a.to].attempts[a.ip] = limiter[a.to].attempts[a.ip]
        BY <3>2, <3>5, <4>1
      <4>. QED
        BY <2>1, <4>1, <4>2 DEF Counts
    <3>7. \A a \in admitted : Entered(a)'
      BY <2>1 DEF Tracked, Entered
    <3>8. \A a, b \in admitted : a.ip \notin promised' => Apart(a, b)'
      BY <2>1 DEF Tracked, Apart
    <3>. QED
      BY <2>1, <3>4, <3>6, <3>7, <3>8 DEF Tracked
  <2>. QED
    BY <2>1, <2>2, <2>3
<1>5. CASE CodeExpires \/ UNCHANGED vars \/ \E p \in Process : Down(p)
  BY <1>5, <1>1 DEF CodeExpires, Down, vars, gates, history
<1>6. ASSUME NEW d \in Device,
             \/ WrongCode(d) \/ Exhaust(d) \/ RightCode(d) \/ Claim(d) \/ Deny(d) \/ Approve(d)
             \/ Cancel(d) \/ Add(d) \/ WriteTmp(d) \/ RenameTmp(d) \/ NoPersist(d)
             \/ PersistFails(d) \/ Receive(d) \/ Keep(d) \/ KeepFails(d)
      PROVE  Tracked'
  BY <1>6, <1>1 DEF WrongCode, Exhaust, RightCode, Claim, Deny, Approve, Cancel, Add, WriteTmp,
    RenameTmp, NoPersist, PersistFails, NotPersisted, Receive, Keep, KeepFails, gates, history
<1>. QED
  BY <1>2, <1>3, <1>4, <1>5, <1>6, TrackedAsk
     DEF Next, Handle, Serve, PairMode, PairModeEnds, Kill, Process

\* What is let in within one window is no more than the attempts it has.
LEMMA OneWindow ==
  ASSUME Tracked, NEW p \in Process, NEW d \in Device \ promised,
         NEW S \in SUBSET {a \in admitted : a.to = p /\ a.ip = d},
         \A a, b \in S : a.first = b.first
  PROVE  IsFiniteSet(S) /\ Cardinality(S) <= MaxAttempts[p] /\ Cardinality(S) \in Nat
<1>. DEFINE f == [a \in S |-> a.nth]
<1>1. MaxAttempts[p] \in Nat \ {0}
  BY PairingAssumption
<1>2. f \in [S -> 1..MaxAttempts[p]]
  BY DEF Tracked, Entered
<1>3. \A a, b \in S : f[a] = f[b] => a = b
  BY DEF Tracked, Apart
<1>4. f \in Injection(S, 1..MaxAttempts[p])
  BY <1>2, <1>3, Fun_IsInj
<1>5. IsFiniteSet(1..MaxAttempts[p]) /\ Cardinality(1..MaxAttempts[p]) = MaxAttempts[p]
  BY <1>1, FS_Interval
<1>6. IsFiniteSet(S) /\ Cardinality(S) <= MaxAttempts[p]
  BY <1>4, <1>5, FS_Injection
<1>. QED
  BY <1>6, FS_CardinalityType

\* A stretch as long as a window meets two of them.
LEMMA TwoWindows == Tracked /\ now \in Nat => AttemptsBounded
<1>. SUFFICES ASSUME Tracked, now \in Nat,
                     NEW p \in Process, NEW d \in Device \ promised, NEW t \in 0..now
              PROVE  Cardinality({a \in admitted : /\ a.to = p /\ a.ip = d
                                                   /\ a.at \in t..(t + Window - 1)})
                       <= 2 * MaxAttempts[p]
  BY DEF AttemptsBounded
<1>. DEFINE S == {a \in admitted : a.to = p /\ a.ip = d /\ a.at \in t..(t + Window - 1)}
            Earlier == {a \in S : a.first < t}
            Later == {a \in S : a.first >= t}
<1>1. /\ Window \in Nat \ {0} /\ MaxAttempts[p] \in Nat
      /\ \A a \in S : /\ a.first \in Nat /\ a.at \in Nat /\ a.at \in t..(t + Window - 1)
                      /\ a.first <= a.at /\ a.at < a.first + Window
      /\ \A a, b \in S : a.first < b.first => a.first + Window <= b.first
  BY LimiterAssumption, PairingAssumption DEF Tracked, Entered, Apart
<1>2. S = Earlier \cup Later
  <2>1. \A a \in S : a.first < t \/ a.first >= t
    BY <1>1
  <2>. QED
    BY <2>1
<1>3. Earlier \subseteq S /\ Later \subseteq S
         /\ S \subseteq {a \in admitted : a.to = p /\ a.ip = d}
  OBVIOUS
<1>4. \A a, b \in Earlier : a.first = b.first
  <2>. SUFFICES ASSUME NEW a \in Earlier, NEW b \in Earlier, a.first < b.first PROVE FALSE
    BY <1>1
  <2>1. /\ a.first \in Nat /\ b.first \in Nat /\ b.first < t /\ a.at >= t
        /\ a.at < a.first + Window /\ a.first + Window <= b.first /\ a.at \in Nat
    BY <1>1
  <2>. QED
    BY <1>1, <2>1
<1>5. \A a, b \in Later : a.first = b.first
  <2>. SUFFICES ASSUME NEW a \in Later, NEW b \in Later, a.first < b.first PROVE FALSE
    BY <1>1
  <2>1. /\ a.first \in Nat /\ b.first \in Nat /\ a.first >= t /\ b.at <= t + Window - 1
        /\ b.first <= b.at /\ a.first + Window <= b.first /\ b.at \in Nat
    BY <1>1
  <2>. QED
    BY <1>1, <2>1
<1>. HIDE DEF S, Earlier, Later
<1>6. IsFiniteSet(Earlier) /\ Cardinality(Earlier) <= MaxAttempts[p] /\ Cardinality(Earlier) \in Nat
  BY <1>3, <1>4, OneWindow
<1>7. IsFiniteSet(Later) /\ Cardinality(Later) <= MaxAttempts[p] /\ Cardinality(Later) \in Nat
  BY <1>3, <1>5, OneWindow
<1>8. Cardinality(S) = Cardinality(Earlier) + Cardinality(Later) - Cardinality(Earlier \cap Later)
  BY <1>2, <1>6, <1>7, FS_Union
<1>9. Cardinality(Earlier \cap Later) \in Nat
  BY <1>6, FS_Intersection, FS_CardinalityType
<1>10. Cardinality(S) <= 2 * MaxAttempts[p]
  BY <1>1, <1>6, <1>7, <1>8, <1>9
<1>. QED
  BY <1>10 DEF S

-----------------------------------------------------------------------------
(* The theorems.                                                            *)

PairInv ==
  TypeInv /\ OneDialog /\ Spent /\ Guessed /\ Consented /\ StoresTyped /\ Promised
    /\ Tracked

\* The invariant holds before anything runs.
LEMMA InitPair == Init => PairInv
<1>. SUFFICES ASSUME Init PROVE PairInv
  OBVIOUS
<1>1. OneDialog
  BY DEF Init, OneDialog, Asking, InStore
<1>2. Spent /\ Guessed
  BY DEF Init, Spent, Guessed
<1>3. Consented
  BY DEF Init, Consented, Within, EmptyMap
<1>4. StoresTyped
  <2>1. EmptyMap \in [{} -> Peer] /\ {} \in SUBSET Device
    BY DEF EmptyMap
  <2>2. EmptyMap \in PeersFile
    BY <2>1 DEF PeersFile, Peer
  <2>. QED
    BY <2>2 DEF Init, StoresTyped
<1>5. Promised
  BY DEF Init, Promised, Sole, OnItsWay, Told, InStore, Paired
<1>6. Tracked
  <2>1. \A p \in Process : Fits(NewLimiter, 0, MaxAttempts[p])
    BY DEF Fits, NewLimiter, EmptyMap
  <2>. QED
    BY <2>1 DEF Init, Tracked, LimitersFit
<1>. QED
  BY <1>1, <1>2, <1>3, <1>4, <1>5, <1>6, InitTypes DEF PairInv

\* The invariant behind the properties below: the types, one dialog, a
\* code that is spent once and dead once guessed at too often, and consent
\* before anything is stored.
THEOREM PairInvariant == Spec => []PairInv
<1>1. PairInv /\ [Next]_vars => PairInv'
  BY NextTypes, DialogNext, CodeNext, ConsentNext, StoresNext, PromiseNext, TrackedNext
     DEF PairInv
<1>. QED
  BY <1>1, InitPair, PTL DEF Spec

\* The types, and that the mutex of a store is held by the one request that is
\* writing the file, through crashes and failures to write.
THEOREM PairingTypes == Spec => []TypeOK
<1>1. PairInv => TypeOK
  BY DEF PairInv, TypeInv
<1>. QED
  BY <1>1, PairInvariant, PTL

\* The flag of the approval server is set exactly while one request has its
\* dialog or stores its peer, for any number of devices.
THEOREM DialogIsOne == Spec => []OneDialog
<1>1. PairInv => OneDialog
  BY DEF PairInv
<1>. QED
  BY <1>1, PairInvariant, PTL

\* A code lets one device in, for any number of devices and guesses.
THEOREM CodeIsOneTime == Spec => []CodeSpentOnce
<1>1. PairInv => CodeSpentOnce
  <2>. SUFFICES ASSUME Spent PROVE CodeSpentOnce
    BY DEF PairInv
  <2>1. CASE spenders = {}
    BY <2>1, FS_EmptySet DEF CodeSpentOnce
  <2>2. CASE \E d \in Device : spenders = {d}
    <3>1. PICK d \in Device : spenders = {d}
      BY <2>2
    <3>2. Cardinality({d}) = 1
      BY FS_Singleton
    <3>. QED
      BY <3>1, <3>2 DEF CodeSpentOnce
  <2>. QED
    BY <2>1, <2>2 DEF Spent
<1>. QED
  BY <1>1, PairInvariant, PTL

\* Whoever is in peers.json or in a process's memory was let in by the right
\* code or by a person, whatever fails.
THEOREM PeersConsented == Spec => []PeersHadConsent
<1>1. PairInv => PeersHadConsent
  BY DEF PairInv, Consented, Within, PeersHadConsent
<1>. QED
  BY <1>1, PairInvariant, PTL

\* What a device was told, and what it keeps, is true and stays true: as long
\* as the two processes do not overlap, no crash, failed write or start of
\* either loses a peer from peers.json.
THEOREM PromisesKept == Spec => []PromiseKept
<1>1. PairInv => PromiseKept
  <2>. SUFFICES ASSUME Promised PROVE PromiseKept
    BY DEF PairInv
  <2>. QED
    BY DEF Promised, Told, PromiseKept
<1>. QED
  BY <1>1, PairInvariant, PTL

\* No stretch of time as long as a window lets more than two windows' attempts
\* of an address in, whatever is swept, when the table is full and across the
\* restarts of the other process.
THEOREM LimiterHolds == Spec => []AttemptsBounded
<1>1. PairInv => AttemptsBounded
  BY TwoWindows DEF PairInv, TypeInv, Shapes
<1>. QED
  BY <1>1, PairInvariant, PTL

\* Too many wrong codes make the right one useless, but for a handler that is
\* between the two locks of verify.
THEOREM ExhaustionHolds == Spec => ExhaustedCodeIsDead
<1>1. PairInv /\ [Next]_vars
      => [\A d \in Device : At(d, "pair", "verify") /\ pc'[d] = "add" =>
            ~Reached(code.failed) \/ \E e \in Device : pc[e] = "exhaust"]_vars
  <2>. SUFFICES ASSUME PairInv, Next, NEW d \in Device, At(d, "pair", "verify"),
                       pc'[d] = "add", Reached(code.failed),
                       \A e \in Device : pc[e] # "exhaust"
                PROVE  FALSE
    OBVIOUS
  <2>1. code.used
    <3>1. "pair" \in up
      BY DEF PairInv, TypeInv, TypeOK, At
    <3>. QED
      BY <3>1 DEF PairInv, Guessed
  <2>2. pc \in [Device -> Steps]
    BY DEF PairInv, TypeInv, TypeOK
  <2>3. \A p : ~Down(p)
    BY <2>2 DEF Down, At
  <2>4. ~Serve /\ ~PairMode /\ ~CodeExpires /\ ~Tick /\ ~PairModeEnds /\ \A p : ~Kill(p)
    BY <2>3 DEF Serve, PairMode, OpenStore, CodeExpires, Tick, rpc, At, PairModeEnds, Kill
  <2>5. \A e \in Device, r \in Request : ~Ask(e, r)
    BY <2>2 DEF Ask, Answer, Goto, At
  <2>6. \A e \in Device : ~(\/ WrongCode(e) \/ Exhaust(e) \/ RightCode(e) \/ Claim(e)
                            \/ Deny(e) \/ Cancel(e) \/ Approve(e))
    BY <2>1, <2>2 DEF WrongCode, Exhaust, RightCode, Usable, Claim, Deny, Cancel, Approve,
                      Answer, Goto, At
  <2>7. \A e \in Device : ~(\/ Add(e) \/ WriteTmp(e) \/ RenameTmp(e) \/ NoPersist(e)
                            \/ PersistFails(e) \/ Accept(e))
    BY <2>2 DEF Add, WriteTmp, RenameTmp, NoPersist, PersistFails, NotPersisted, Accept,
                Persisted, Answer, Goto, At
  <2>8. \A e \in Device : ~(Receive(e) \/ Keep(e) \/ KeepFails(e))
    BY <2>2 DEF Receive, Keep, KeepFails, Goto, At
  <2>. QED
    BY <2>4, <2>5, <2>6, <2>7, <2>8 DEF Next, Handle
<1>. QED
  BY <1>1, PairInvariant, PTL DEF Spec, ExhaustedCodeIsDead
=============================================================================
