--------------------------- MODULE MatmulStripsProofs ---------------------------
(***************************************************************************)
(* Proofs about MatmulStrips, for any clients, products and sizes of the   *)
(* pool: columns are computed once, and nobody waits in a circle.          *)
(*                                                                         *)
(* The inductive invariant says who owns what: the call of parallelFor     *)
(* belongs to the thread that waits for it, a mutex to a thread past it,   *)
(* and what is written of a product is the strips of the slots that ran.   *)
(***************************************************************************)
EXTENDS MatmulStrips, FiniteSetTheorems, TLAPS

Stages == {"idle", "start", "whole", "lock", "for", "strip", "wait", "end"}

\* What holds of each variable, and which product a thread is in.
StripsTypes ==
    /\ \E size \in PoolSizes : poolWorkers = 1 .. size
    /\ stage \in [MatmulThreads -> Stages]
    /\ product \in [MatmulThreads -> Products \cup {None}]
    /\ within \in [MatmulThreads -> {"call", "task", "slot"}]
    /\ DOMAIN written = MatmulThreads
    /\ \A t \in MatmulThreads : written[t] \in [Columns(product[t]) -> Nat]
    /\ {gemmPfor, forOwner} \subseteq MatmulThreads \cup {Nobody}
    /\ forFn \in {"strips", "body"}
    /\ slotsRun \subseteq poolWorkers \cup {CallerSlot}

\* Thread t has its strips computed.
InStrips(t) == stage[t] = "strip" \/ (stage[t] = "wait" /\ forFn = "strips")

\* A thread of the pool waits for nothing in a product.
WorkersGoOn == \A w \in poolWorkers : stage[w] \in {"idle", "start", "whole", "end"}

\* One call of parallelFor at a time: by the thread that waits for it, for its strips, or
\* for the product in its own slot of a body.
CallOwned ==
    /\ \A t \in MatmulThreads :
          /\ stage[t] = "strip" => forOwner = t /\ forFn = "strips"
          /\ stage[t] = "wait" => forOwner = t
          /\ stage[t] \in {"strip", "wait"} => within[t] # "slot"
    /\ \A c \in Clients : within[c] = "slot" => forOwner = c /\ forFn = "body"
    /\ \A w \in poolWorkers : within[w] = "slot" => OwesSlot(w) /\ forFn = "body"
    /\ forOwner # Nobody /\ forFn = "strips" => stage[forOwner] \in {"strip", "wait"}

\* The mutex is held from the lock to the end of the call or of the whole product.
MutexOwned ==
    \A t \in MatmulThreads :
        gemmPfor = t => stage[t] \in {"for", "whole"} \/ InStrips(t)

\* What is written of a product is what the stage says.
Written(t) ==
    /\ stage[t] \in {"start", "lock", "for", "whole"} =>
          \A j \in Columns(product[t]) : written[t][j] = 0
    /\ stage[t] = "end" => \A j \in Columns(product[t]) : written[t][j] = 1
    /\ InStrips(t) =>
          \A j \in Columns(product[t]) :
              written[t][j] = IF \E s \in slotsRun : j \in Strip(product[t], s, SlotCount)
                              THEN 1 ELSE 0
    /\ stage[t] = "idle" \/ (stage[t] = "wait" /\ forFn = "body") => product[t] = None
    /\ stage[t] \in Stages \ {"idle", "wait"} \/ InStrips(t) => product[t] \in Products

WrittenInv == \A t \in MatmulThreads : Written(t)

IInv == StripsTypes /\ WorkersGoOn /\ CallOwned /\ MutexOwned /\ WrittenInv
----------------------------------------------------------------------------
(* The division into strips *)

LEMMA Quotient ==
    ASSUME NEW a \in Nat, NEW b \in Nat \ {0}
    PROVE  a \div b \in Nat /\ b * (a \div b) <= a /\ a < b * (a \div b) + b
  BY SMT

LEMMA Rounded ==
    ASSUME NEW a \in Nat, NEW b \in Nat \ {0}
    PROVE  CeilDiv(a, b) \in Nat /\ a <= b * CeilDiv(a, b)
  <1>1. a + b - 1 \in Nat
    OBVIOUS
  <1>2. CeilDiv(a, b) \in Nat /\ a + b - 1 < b * CeilDiv(a, b) + b
    BY <1>1, Quotient DEF CeilDiv
  <1>3. b * CeilDiv(a, b) \in Nat
    BY <1>2
  <1>4. QED
    BY <1>2, <1>3

\* A strip has columns, and the strips together have room for all of them.
LEMMA StripsWide ==
    ASSUME NEW p \in Products, NEW slots \in Nat \ {0}
    PROVE  /\ StripColumns(p, slots) \in Nat \ {0}
           /\ p.n <= slots * StripColumns(p, slots)
  <1> DEFINE c == CeilDiv(p.n, slots)
             nc == StripColumns(p, slots)
  <1>1. p.n \in Nat \ {0} /\ p.align \in Nat \ {0}
    BY StripsAssumption
  <1>2. c \in Nat /\ p.n <= slots * c
    BY <1>1, Rounded
  <1>3. CeilDiv(c, p.align) \in Nat /\ c <= p.align * CeilDiv(c, p.align)
    BY <1>1, <1>2, Rounded
  <1>4. nc = CeilDiv(c, p.align) * p.align
    BY DEF StripColumns
  <1> HIDE DEF c, nc
  <1>5. nc \in Nat /\ c <= nc
    BY <1>1, <1>2, <1>3, <1>4
  <1>6. slots * c <= slots * nc
    BY <1>2, <1>5
  <1>7. p.n <= slots * nc /\ slots * nc \in Nat /\ slots * c \in Nat
    BY <1>1, <1>2, <1>5, <1>6
  <1>8. nc # 0
    BY <1>1, <1>7
  <1>9. QED
    BY <1>5, <1>7, <1>8 DEF nc

\* Every column is in a strip.
LEMMA StripsCover ==
    ASSUME NEW p \in Products, NEW slots \in Nat \ {0}, NEW j \in Columns(p)
    PROVE  \E s \in 0 .. slots - 1 : j \in Strip(p, s, slots)
  <1> DEFINE nc == StripColumns(p, slots)
             s == j \div nc
  <1>1. p.n \in Nat /\ j \in Nat /\ j < p.n
    BY StripsAssumption DEF Columns
  <1>2. nc \in Nat \ {0} /\ p.n <= slots * nc
    BY StripsWide
  <1> HIDE DEF nc
  <1>3. s \in Nat /\ nc * s <= j /\ j < nc * s + nc
    BY <1>1, <1>2, Quotient
  <1> HIDE DEF s
  <1>4. s * nc <= j /\ j < (s + 1) * nc
    BY <1>1, <1>2, <1>3
  <1>5. s * nc < slots * nc
    BY <1>1, <1>2, <1>3, <1>4
  <1>6. s < slots
    BY <1>2, <1>3, <1>5
  <1>7. s \in 0 .. slots - 1 /\ j \in Strip(p, s, slots)
    BY <1>3, <1>4, <1>6 DEF Strip, nc
  <1>8. QED
    BY <1>7

\* No column is in two.
LEMMA StripsApart ==
    ASSUME NEW p \in Products, NEW slots \in Nat \ {0}, NEW s \in Nat, NEW u \in Nat, s < u
    PROVE  Strip(p, s, slots) \cap Strip(p, u, slots) = {}
  <1> DEFINE nc == StripColumns(p, slots)
  <1>1. nc \in Nat \ {0}
    BY StripsWide
  <1> HIDE DEF nc
  <1>2. (s + 1) * nc <= u * nc
    BY <1>1
  <1>3. SUFFICES ASSUME NEW j \in Strip(p, s, slots), j \in Strip(p, u, slots) PROVE FALSE
    OBVIOUS
  <1>4. j \in Int /\ j < (s + 1) * nc /\ u * nc <= j
    BY <1>3 DEF Strip, Columns, nc
  <1>5. (s + 1) * nc \in Int /\ u * nc \in Int
    BY <1>1
  <1>6. QED
    BY <1>2, <1>4, <1>5

----------------------------------------------------------------------------
(* The pool *)

LEMMA PoolFacts ==
    ASSUME StripsTypes
    PROVE  /\ SlotCount \in Nat \ {0}
           /\ poolWorkers \cup {CallerSlot} = 0 .. SlotCount - 1
           /\ CallerSlot \notin poolWorkers
           /\ Clients \cap poolWorkers = {}
           /\ Nobody \notin MatmulThreads
           /\ \A p \in Products : p # None
  <1>1. PICK size \in PoolSizes : poolWorkers = 1 .. size
    BY DEF StripsTypes
  <1>2. size \in Nat
    BY StripsAssumption
  <1>3. Cardinality(poolWorkers) = size
    BY <1>1, <1>2, FS_Interval
  <1>4. SlotCount = size + 1
    BY <1>3 DEF SlotCount
  <1>5. (Clients \cup {Nobody}) \cap poolWorkers = {} /\ Nobody \notin Clients
    BY <1>1, StripsAssumption
  <1>6. \A p \in Products : p.n # 0
    BY StripsAssumption
  <1>7. poolWorkers \cup {CallerSlot} = 0 .. SlotCount - 1 /\ CallerSlot \notin poolWorkers
    BY <1>1, <1>2, <1>4 DEF CallerSlot
  <1>8. QED
    BY <1>2, <1>4, <1>5, <1>6, <1>7 DEF MatmulThreads, None

LEMMA NoColumns == Columns(None) = {} /\ <<>> \in [{} -> Nat]
  BY DEF Columns, None

----------------------------------------------------------------------------
(* The invariant *)

LEMMA InitInv == StripsInit => IInv
  <1> SUFFICES ASSUME StripsInit PROVE IInv
    OBVIOUS
  <1>1. StripsTypes
    BY NoColumns DEF StripsInit, StripsTypes, Stages, MatmulThreads
  <1>2. WorkersGoOn /\ MutexOwned
    BY <1>1, PoolFacts DEF StripsInit, WorkersGoOn, MutexOwned, MatmulThreads
  <1>3. CallOwned
    BY DEF StripsInit, CallOwned, MatmulThreads
  <1>4. WrittenInv
    BY NoColumns DEF StripsInit, WrittenInv, Written, InStrips, Stages, MatmulThreads
  <1>5. QED
    BY <1>1, <1>2, <1>3, <1>4 DEF IInv

\* The columns of one product, once more
LEMMA Computed ==
    ASSUME StripsTypes, NEW t \in MatmulThreads, NEW columns, Compute(t, columns)
    PROVE  /\ DOMAIN written' = MatmulThreads
           /\ \A u \in MatmulThreads \ {t} : written'[u] = written[u]
           /\ written'[t] \in [Columns(product[t]) -> Nat]
           /\ \A j \in Columns(product[t]) :
                 written'[t][j] = IF j \in columns THEN written[t][j] + 1 ELSE written[t][j]
  BY DEF StripsTypes, Compute

\* A step keeps the invariant.
LEMMA StepInv == IInv /\ StripsNext => IInv'
  <1> SUFFICES ASSUME IInv, StripsNext PROVE IInv'
    OBVIOUS
  <1> USE DEF IInv
  <1>a. /\ poolWorkers' = poolWorkers /\ MatmulThreads' = MatmulThreads /\ SlotCount' = SlotCount
        /\ poolWorkers \subseteq MatmulThreads /\ Clients \subseteq MatmulThreads
    BY DEF StripsNext, MatmulThreads, SlotCount
  <1>b. /\ Nobody \notin MatmulThreads /\ Clients \cap poolWorkers = {}
        /\ CallerSlot \notin poolWorkers /\ \A p \in Products : p # None
    BY PoolFacts
  <1>1. ASSUME NEW c \in Clients, NEW p \in Products, MultiplyInClient(c, p)
        PROVE  IInv'
    <2>1. StripsTypes'
      BY <1>1, <1>a, <1>b DEF StripsTypes, Stages, MultiplyInClient, Enter
    <2>2. WorkersGoOn'
      BY <1>1, <1>a, <1>b DEF StripsTypes, WorkersGoOn, MultiplyInClient, Enter
    <2>3. CallOwned'
      BY <1>1, <1>a, <1>b DEF StripsTypes, WorkersGoOn, CallOwned, MatmulThreads, OwesSlot, MultiplyInClient, Enter
    <2>4. MutexOwned'
      BY <1>1, <1>a, <1>b DEF StripsTypes, CallOwned, MutexOwned, InStrips, MultiplyInClient, Enter
    <2>5. WrittenInv'
      BY <1>1, <1>a, <1>b DEF StripsTypes, Stages, CallOwned, WrittenInv, Written, InStrips, MultiplyInClient, Enter
    <2>6. QED
      BY <2>1, <2>2, <2>3, <2>4, <2>5
  <1>2. ASSUME NEW c \in Clients, NEW p \in Products, MultiplyInBody(c, p)
        PROVE  IInv'
    <2>1. StripsTypes'
      BY <1>2, <1>a, <1>b DEF StripsTypes, Stages, MultiplyInBody, Enter, BeginFor
    <2>2. WorkersGoOn'
      BY <1>2, <1>a, <1>b DEF StripsTypes, WorkersGoOn, MultiplyInBody, Enter, BeginFor
    <2>3. CallOwned'
      BY <1>2, <1>a, <1>b DEF StripsTypes, WorkersGoOn, CallOwned, MatmulThreads, OwesSlot, MultiplyInBody, Enter, BeginFor
    <2>4. MutexOwned'
      BY <1>2, <1>a, <1>b DEF StripsTypes, CallOwned, MutexOwned, InStrips, MultiplyInBody, Enter, BeginFor
    <2>5. WrittenInv'
      BY <1>2, <1>a, <1>b DEF StripsTypes, Stages, CallOwned, WrittenInv, Written, InStrips, MultiplyInBody, Enter, BeginFor
    <2>6. QED
      BY <2>1, <2>2, <2>3, <2>4, <2>5
  <1>3. ASSUME NEW w \in poolWorkers, NEW p \in Products, MultiplyInTask(w, p)
        PROVE  IInv'
    <2>1. StripsTypes'
      BY <1>3, <1>a, <1>b DEF StripsTypes, Stages, MultiplyInTask, Enter
    <2>2. WorkersGoOn'
      BY <1>3, <1>a, <1>b DEF StripsTypes, WorkersGoOn, MultiplyInTask, Enter
    <2>3. CallOwned'
      BY <1>3, <1>a, <1>b DEF StripsTypes, WorkersGoOn, CallOwned, MatmulThreads, OwesSlot, MultiplyInTask, Enter
    <2>4. MutexOwned'
      BY <1>3, <1>a, <1>b DEF StripsTypes, CallOwned, MutexOwned, InStrips, MultiplyInTask, Enter
    <2>5. WrittenInv'
      BY <1>3, <1>a, <1>b DEF StripsTypes, Stages, CallOwned, WrittenInv, Written, InStrips, MultiplyInTask, Enter
    <2>6. QED
      BY <2>1, <2>2, <2>3, <2>4, <2>5
  <1>4. ASSUME NEW w \in poolWorkers, NEW p \in Products, MultiplyInSlot(w, p)
        PROVE  IInv'
    <2>1. StripsTypes'
      BY <1>4, <1>a, <1>b DEF StripsTypes, Stages, MultiplyInSlot, Enter
    <2>2. WorkersGoOn'
      BY <1>4, <1>a, <1>b DEF StripsTypes, WorkersGoOn, MultiplyInSlot, Enter
    <2>3. CallOwned'
      BY <1>4, <1>a, <1>b DEF StripsTypes, WorkersGoOn, CallOwned, MatmulThreads, OwesSlot, MultiplyInSlot, Enter
    <2>4. MutexOwned'
      BY <1>4, <1>a, <1>b DEF StripsTypes, CallOwned, MutexOwned, InStrips, MultiplyInSlot, Enter
    <2>5. WrittenInv'
      BY <1>4, <1>a, <1>b DEF StripsTypes, Stages, CallOwned, WrittenInv, Written, InStrips, MultiplyInSlot, Enter
    <2>6. QED
      BY <2>1, <2>2, <2>3, <2>4, <2>5
  <1>5. ASSUME NEW w \in poolWorkers, WorkerStrip(w)
        PROVE  IInv'
    <2>p. PICK t \in MatmulThreads : t = forOwner
      BY <1>5 DEF WorkerStrip, RunForSlot, StripsTypes
    <2>c. InStrips(t) /\ product[t] \in Products /\ forOwner = t
      BY <1>5, <2>p, <1>b DEF WorkerStrip, RunForSlot, StripsTypes, CallOwned, InStrips, WrittenInv, Written, Stages
    <2>d. Compute(t, Strip(product[t], w, SlotCount))
      BY <1>5, <2>c DEF WorkerStrip
    <2>1. StripsTypes'
      <3>1. /\ DOMAIN written' = MatmulThreads /\ product' = product
            /\ \A u \in MatmulThreads : written'[u] \in [Columns(product[u]) -> Nat]
        BY <1>5, <1>b, <2>d, Computed DEF StripsTypes, WorkerStrip
      <3>2. slotsRun' \subseteq poolWorkers \cup {CallerSlot} /\ UNCHANGED <<forOwner, forFn>>
        BY <1>5, <1>b DEF StripsTypes, WorkerStrip, RunForSlot
      <3>3. QED
        BY <1>5, <1>a, <1>b, <3>1, <3>2 DEF StripsTypes, WorkerStrip
    <2>2. WorkersGoOn'
      BY <1>5, <1>a, <1>b, <2>c DEF StripsTypes, WorkersGoOn, WorkerStrip, RunForSlot
    <2>3. CallOwned'
      BY <1>5, <1>a, <1>b, <2>c DEF StripsTypes, WorkersGoOn, CallOwned, MatmulThreads, OwesSlot, WorkerStrip, RunForSlot
    <2>4. MutexOwned'
      BY <1>5, <1>a, <1>b, <2>c DEF StripsTypes, CallOwned, MutexOwned, InStrips, WorkerStrip, RunForSlot
    <2>5. WrittenInv'
      <3>1. \A j \in Columns(product[t]), s \in slotsRun :
                j \in Strip(product[t], w, SlotCount) => j \notin Strip(product[t], s, SlotCount)
        BY <1>5, <2>c, PoolFacts, StripsApart DEF StripsTypes, WorkerStrip, RunForSlot
      <3>2. slotsRun' = slotsRun \cup {w} /\ product' = product /\ forFn' = forFn
        BY <1>5 DEF WorkerStrip, RunForSlot
      <3>3. InStrips(t)' /\ \A u \in MatmulThreads \ {t} : stage'[u] = stage[u]
        BY <1>5, <2>c DEF StripsTypes, InStrips, CallOwned, WorkerStrip, RunForSlot
      <3>4. \A j \in Columns(product[t]) :
               written'[t][j] = IF \E s \in slotsRun' : j \in Strip(product[t], s, SlotCount) THEN 1 ELSE 0
        BY <2>c, <2>d, <3>1, <3>2, Computed DEF WrittenInv, Written
      <3>5. Written(t)'
        BY <1>a, <2>c, <3>2, <3>3, <3>4 DEF Written, InStrips
      <3>6. ASSUME NEW u \in MatmulThreads \ {t} PROVE Written(u)'
        <4>1. ~InStrips(u)
          BY <1>b, <2>c DEF CallOwned, InStrips
        <4>2. written'[u] = written[u]
          BY <2>c, <2>d, Computed
        <4>3. QED
          BY <1>a, <3>2, <3>3, <4>1, <4>2 DEF WrittenInv, Written, InStrips
      <3>7. QED
        BY <1>a, <3>5, <3>6 DEF WrittenInv
    <2>6. QED
      BY <2>1, <2>2, <2>3, <2>4, <2>5
  <1>6. ASSUME NEW t \in MatmulThreads, Decide(t)
        PROVE  IInv'
    <2>1. StripsTypes'
      BY <1>6, <1>a, <1>b DEF StripsTypes, Stages, Decide, StripsGoto, ComputesWhole, isWorkerThread
    <2>2. WorkersGoOn'
      BY <1>6, <1>a, <1>b DEF StripsTypes, WorkersGoOn, Decide, StripsGoto, ComputesWhole, isWorkerThread
    <2>3. CallOwned'
      BY <1>6, <1>a, <1>b DEF StripsTypes, WorkersGoOn, CallOwned, MatmulThreads, OwesSlot, Decide, StripsGoto, ComputesWhole, isWorkerThread
    <2>4. MutexOwned'
      BY <1>6, <1>a, <1>b DEF StripsTypes, CallOwned, MutexOwned, InStrips, Decide, StripsGoto, ComputesWhole, isWorkerThread
    <2>5. WrittenInv'
      BY <1>6, <1>a, <1>b DEF StripsTypes, Stages, CallOwned, WrittenInv, Written, InStrips, Decide, StripsGoto, ComputesWhole, isWorkerThread
    <2>6. QED
      BY <2>1, <2>2, <2>3, <2>4, <2>5
  <1>7. ASSUME NEW t \in MatmulThreads, ComputeWhole(t)
        PROVE  IInv'
    <2>d. Compute(t, Columns(product[t]))
      BY <1>7 DEF ComputeWhole
    <2>c. /\ stage' = [stage EXCEPT ![t] = "end"] /\ product' = product /\ within' = within
          /\ forOwner' = forOwner /\ forFn' = forFn /\ slotsRun' = slotsRun
          /\ gemmPfor' \in {gemmPfor, Nobody}
      BY <1>7 DEF ComputeWhole, StripsGoto
    <2>e. DOMAIN written' = MatmulThreads /\ \A u \in MatmulThreads \ {t} : written'[u] = written[u]
      BY <2>d, Computed
    <2>f. DOMAIN written' = MatmulThreads
          /\ \A u \in MatmulThreads : written'[u] \in [Columns(product[u]) -> Nat]
      BY <2>d, <2>e, Computed DEF StripsTypes
    <2>1. StripsTypes'
      BY <1>a, <2>c, <2>f DEF StripsTypes, Stages
    <2>2. WorkersGoOn'
      BY <1>7, <1>a, <1>b DEF StripsTypes, WorkersGoOn, ComputeWhole, StripsGoto
    <2>3. CallOwned'
      BY <1>7, <1>a, <1>b DEF StripsTypes, WorkersGoOn, CallOwned, MatmulThreads, OwesSlot, ComputeWhole, StripsGoto
    <2>4. MutexOwned'
      BY <1>7, <1>a, <1>b DEF StripsTypes, CallOwned, MutexOwned, InStrips, ComputeWhole, StripsGoto
    <2>5. WrittenInv'
      BY <1>7, <1>a, <1>b, <2>d, Computed DEF StripsTypes, Stages, CallOwned, WrittenInv, Written, InStrips, ComputeWhole, StripsGoto
    <2>6. QED
      BY <2>1, <2>2, <2>3, <2>4, <2>5
  <1>8. ASSUME NEW t \in MatmulThreads, ProductDone(t)
        PROVE  IInv'
    <2>c. /\ product' = [product EXCEPT ![t] = None] /\ written' = [written EXCEPT ![t] = <<>>]
          /\ within' = [within EXCEPT ![t] = "call"] /\ gemmPfor' = gemmPfor
          /\ forOwner' = forOwner /\ forFn' = forFn
      BY <1>8 DEF ProductDone, RunForSlot
    <2>d. \A j \in MatmulThreads : product'[j] = None => written'[j] \in [Columns(None) -> Nat]
      BY <1>a, <2>c, NoColumns DEF StripsTypes
    <2>e. \/ /\ within[t] = "slot" /\ forOwner # Nobody
             /\ stage' = [stage EXCEPT ![t] = IF t \in poolWorkers THEN "idle" ELSE "wait"]
             /\ slotsRun' = slotsRun \cup {IF t \in poolWorkers THEN t ELSE CallerSlot}
          \/ /\ within[t] # "slot"
             /\ stage' = [stage EXCEPT ![t] = "idle"]
             /\ slotsRun' = slotsRun
      BY <1>8, <1>b DEF ProductDone, StripsGoto, RunForSlot
    <2>g. stage[t] = "end"
      BY <1>8 DEF ProductDone
    <2>f. \A u \in MatmulThreads : written'[u] \in [Columns(product'[u]) -> Nat]
      BY <1>a, <2>c, <2>d DEF StripsTypes
    <2>1. StripsTypes'
      BY <1>a, <2>c, <2>e, <2>f DEF StripsTypes, Stages
    <2>2. WorkersGoOn'
      BY <1>8, <1>a, <1>b DEF StripsTypes, WorkersGoOn, ProductDone, StripsGoto, RunForSlot
    <2>3. CallOwned'
      <3>1. \A u \in MatmulThreads \ {t} :
               /\ stage'[u] = stage[u] /\ within'[u] = within[u]
               /\ u \in poolWorkers /\ OwesSlot(u) => u \notin slotsRun'
        BY <2>c, <2>e, <1>b DEF StripsTypes, OwesSlot
      <3>2. /\ within'[t] = "call" /\ stage'[t] # "strip"
            /\ stage'[t] = "wait" => t \in Clients /\ within[t] = "slot"
        BY <2>c, <2>e DEF StripsTypes, MatmulThreads
      <3>3. \A u \in MatmulThreads :
               /\ stage'[u] = "strip" => forOwner' = u /\ forFn' = "strips"
               /\ stage'[u] = "wait" => forOwner' = u
               /\ stage'[u] \in {"strip", "wait"} => within'[u] # "slot"
        BY <2>c, <3>1, <3>2 DEF CallOwned
      <3>4. \A c \in Clients : within'[c] = "slot" => forOwner' = c /\ forFn' = "body"
        BY <1>a, <2>c, <3>1, <3>2 DEF CallOwned
      <3>5. \A w \in poolWorkers : within'[w] = "slot" => OwesSlot(w)' /\ forFn' = "body"
        BY <1>a, <2>c, <3>1, <3>2 DEF CallOwned, OwesSlot
      <3>6. forOwner' # Nobody /\ forFn' = "strips" => stage'[forOwner'] \in {"strip", "wait"}
        BY <2>c, <2>g, <3>1 DEF CallOwned, StripsTypes
      <3>7. QED
        BY <1>a, <3>3, <3>4, <3>5, <3>6 DEF CallOwned
    <2>4. MutexOwned'
      BY <1>8, <1>a, <1>b DEF StripsTypes, CallOwned, MutexOwned, InStrips, ProductDone, StripsGoto, RunForSlot
    <2>5. WrittenInv'
      <3>1. ASSUME NEW u \in MatmulThreads \ {t} PROVE Written(u)'
        <4>1. /\ stage'[u] = stage[u] /\ written'[u] = written[u] /\ product'[u] = product[u]
              /\ forFn' = forFn /\ InStrips(u)' = InStrips(u)
          BY <2>c, <2>e DEF StripsTypes, InStrips
        <4>2. InStrips(u) => slotsRun' = slotsRun
          <5>1. CASE within[t] = "slot"
            BY <1>8, <1>b, <2>e, <5>1 DEF MatmulThreads, InStrips, CallOwned
          <5>2. QED
            BY <2>e, <5>1
        <4>3. QED
          BY <1>a, <4>1, <4>2 DEF WrittenInv, Written
      <3>2. Written(t)'
        BY <1>a, <1>b, <2>c, <2>e, NoColumns DEF StripsTypes, CallOwned, Written, InStrips, Stages, MatmulThreads
      <3>3. QED
        BY <1>a, <3>1, <3>2 DEF WrittenInv
    <2>6. QED
      BY <2>1, <2>2, <2>3, <2>4, <2>5
  <1>9. ASSUME NEW t \in MatmulThreads, TakeGemmPfor(t)
        PROVE  IInv'
    <2>1. StripsTypes'
      BY <1>9, <1>a, <1>b DEF StripsTypes, Stages, TakeGemmPfor, StripsGoto
    <2>2. WorkersGoOn'
      BY <1>9, <1>a, <1>b DEF StripsTypes, WorkersGoOn, TakeGemmPfor, StripsGoto
    <2>3. CallOwned'
      BY <1>9, <1>a, <1>b DEF StripsTypes, WorkersGoOn, CallOwned, MatmulThreads, OwesSlot, TakeGemmPfor, StripsGoto
    <2>4. MutexOwned'
      BY <1>9, <1>a, <1>b DEF StripsTypes, CallOwned, MutexOwned, InStrips, TakeGemmPfor, StripsGoto
    <2>5. WrittenInv'
      <3>1. ASSUME NEW u \in MatmulThreads \ {t} PROVE Written(u)'
        BY <1>9, <1>a DEF StripsTypes, WrittenInv, Written, InStrips, TakeGemmPfor, StripsGoto
      <3>2. Written(t)'
        BY <1>9, <1>a DEF StripsTypes, Stages, WrittenInv, Written, InStrips, TakeGemmPfor, StripsGoto
      <3>3. QED
        BY <1>a, <3>1, <3>2 DEF WrittenInv
    <2>6. QED
      BY <2>1, <2>2, <2>3, <2>4, <2>5
  <1>10. ASSUME NEW t \in MatmulThreads, BeginStrips(t)
        PROVE  IInv'
    <2>1. StripsTypes'
      BY <1>10, <1>a, <1>b DEF StripsTypes, Stages, BeginStrips, StripsGoto, BeginFor
    <2>2. WorkersGoOn'
      BY <1>10, <1>a, <1>b DEF StripsTypes, WorkersGoOn, BeginStrips, StripsGoto, BeginFor
    <2>3. CallOwned'
      BY <1>10, <1>a, <1>b DEF StripsTypes, WorkersGoOn, CallOwned, MatmulThreads, OwesSlot, BeginStrips, StripsGoto, BeginFor
    <2>4. MutexOwned'
      BY <1>10, <1>a, <1>b DEF StripsTypes, CallOwned, MutexOwned, InStrips, BeginStrips, StripsGoto, BeginFor
    <2>5. WrittenInv'
      BY <1>10, <1>a, <1>b DEF StripsTypes, Stages, CallOwned, WrittenInv, Written, InStrips, BeginStrips, StripsGoto, BeginFor
    <2>6. QED
      BY <2>1, <2>2, <2>3, <2>4, <2>5
  <1>11. ASSUME NEW t \in MatmulThreads, NotNestable(t)
        PROVE  IInv'
    <2>1. StripsTypes'
      BY <1>11, <1>a, <1>b DEF StripsTypes, Stages, NotNestable, StripsGoto
    <2>2. WorkersGoOn'
      BY <1>11, <1>a, <1>b DEF StripsTypes, WorkersGoOn, NotNestable, StripsGoto
    <2>3. CallOwned'
      BY <1>11, <1>a, <1>b DEF StripsTypes, WorkersGoOn, CallOwned, MatmulThreads, OwesSlot, NotNestable, StripsGoto
    <2>4. MutexOwned'
      BY <1>11, <1>a, <1>b DEF StripsTypes, CallOwned, MutexOwned, InStrips, NotNestable, StripsGoto
    <2>5. WrittenInv'
      BY <1>11, <1>a, <1>b DEF StripsTypes, Stages, CallOwned, WrittenInv, Written, InStrips, NotNestable, StripsGoto
    <2>6. QED
      BY <2>1, <2>2, <2>3, <2>4, <2>5
  <1>12. ASSUME NEW t \in MatmulThreads, FirstStrip(t)
        PROVE  IInv'
    <2>c. InStrips(t) /\ product[t] \in Products /\ forOwner = t
      BY <1>12 DEF FirstStrip, InStrips, WrittenInv, Written, Stages, CallOwned
    <2>d. Compute(t, Strip(product[t], CallerSlot, SlotCount))
      BY <1>12 DEF FirstStrip
    <2>1. StripsTypes'
      BY <1>12, <1>a, <1>b, <2>c, <2>d, Computed DEF StripsTypes, Stages, FirstStrip, StripsGoto, RunForSlot
    <2>2. WorkersGoOn'
      BY <1>12, <1>a, <1>b, <2>c DEF StripsTypes, WorkersGoOn, FirstStrip, StripsGoto, RunForSlot
    <2>3. CallOwned'
      BY <1>12, <1>a, <1>b, <2>c DEF StripsTypes, WorkersGoOn, CallOwned, MatmulThreads, OwesSlot, FirstStrip, StripsGoto, RunForSlot
    <2>4. MutexOwned'
      BY <1>12, <1>a, <1>b, <2>c DEF StripsTypes, CallOwned, MutexOwned, InStrips, FirstStrip, StripsGoto, RunForSlot
    <2>5. WrittenInv'
      <3>1. \A j \in Columns(product[t]), s \in slotsRun :
                j \in Strip(product[t], CallerSlot, SlotCount) => j \notin Strip(product[t], s, SlotCount)
        BY <1>12, <2>c, PoolFacts, StripsApart DEF StripsTypes, FirstStrip, StripsGoto, RunForSlot
      <3>2. slotsRun' = slotsRun \cup {CallerSlot} /\ product' = product /\ forFn' = forFn
        BY <1>12 DEF FirstStrip, StripsGoto, RunForSlot
      <3>3. InStrips(t)' /\ \A u \in MatmulThreads \ {t} : stage'[u] = stage[u]
        BY <1>12, <2>c DEF StripsTypes, InStrips, CallOwned, FirstStrip, StripsGoto, RunForSlot
      <3>4. \A j \in Columns(product[t]) :
               written'[t][j] = IF \E s \in slotsRun' : j \in Strip(product[t], s, SlotCount) THEN 1 ELSE 0
        BY <2>c, <2>d, <3>1, <3>2, Computed DEF WrittenInv, Written
      <3>5. Written(t)'
        BY <1>a, <2>c, <3>2, <3>3, <3>4 DEF Written, InStrips
      <3>6. ASSUME NEW u \in MatmulThreads \ {t} PROVE Written(u)'
        <4>1. ~InStrips(u)
          BY <1>b, <2>c DEF CallOwned, InStrips
        <4>2. written'[u] = written[u]
          BY <2>c, <2>d, Computed
        <4>3. QED
          BY <1>a, <3>2, <3>3, <4>1, <4>2 DEF WrittenInv, Written, InStrips
      <3>7. QED
        BY <1>a, <3>5, <3>6 DEF WrittenInv
    <2>6. QED
      BY <2>1, <2>2, <2>3, <2>4, <2>5
  <1>13. ASSUME NEW t \in MatmulThreads, EndFor(t)
        PROVE  IInv'
    <2>1. StripsTypes'
      BY <1>13, <1>a, <1>b DEF StripsTypes, Stages, EndFor, StripsGoto, ReturnFromFor
    <2>2. WorkersGoOn'
      BY <1>13, <1>a, <1>b DEF StripsTypes, WorkersGoOn, EndFor, StripsGoto, ReturnFromFor
    <2>3. CallOwned'
      BY <1>13, <1>a, <1>b DEF StripsTypes, WorkersGoOn, CallOwned, MatmulThreads, OwesSlot, EndFor, StripsGoto, ReturnFromFor
    <2>4. MutexOwned'
      BY <1>13, <1>a, <1>b DEF StripsTypes, CallOwned, MutexOwned, InStrips, EndFor, StripsGoto, ReturnFromFor
    <2>5. WrittenInv'
      <3>1. ASSUME NEW u \in MatmulThreads \ {t} PROVE Written(u)'
        <4>1. ~InStrips(u)
          BY <1>13 DEF CallOwned, InStrips, EndFor
        <4>2. QED
          BY <1>13, <1>a, <4>1 DEF StripsTypes, WrittenInv, Written, InStrips, EndFor, StripsGoto, ReturnFromFor
      <3>2. Written(t)'
        <4>1. CASE forFn = "strips"
          <5>1. InStrips(t) /\ product[t] \in Products
            BY <1>13, <4>1 DEF EndFor, InStrips, WrittenInv, Written
          <5>2. \A j \in Columns(product[t]) : \E s \in slotsRun : j \in Strip(product[t], s, SlotCount)
            BY <1>13, <5>1, PoolFacts, StripsCover DEF EndFor, ReturnFromFor
          <5>3. \A j \in Columns(product[t]) : written[t][j] = 1
            BY <5>1, <5>2 DEF WrittenInv, Written
          <5>4. stage'[t] = "end" /\ written' = written /\ product' = product
            BY <1>13, <4>1 DEF StripsTypes, EndFor, StripsGoto
          <5>5. QED
            BY <5>1, <5>3, <5>4 DEF Written, InStrips
        <4>2. CASE forFn = "body"
          BY <1>13, <1>a, <4>2 DEF StripsTypes, Stages, WrittenInv, Written, InStrips, EndFor, StripsGoto, ReturnFromFor
        <4>3. QED
          BY <4>1, <4>2 DEF StripsTypes
      <3>3. QED
        BY <1>a, <3>1, <3>2 DEF WrittenInv
    <2>6. QED
      BY <2>1, <2>2, <2>3, <2>4, <2>5
  <1>14. QED
    BY <1>1, <1>2, <1>3, <1>4, <1>5, <1>6, <1>7, <1>8, <1>9, <1>10, <1>11, <1>12, <1>13 DEF StripsNext

LEMMA Invariance == StripsSpec => []IInv
  <1>1. IInv /\ UNCHANGED stripsVars => IInv'
    BY DEF stripsVars, IInv, StripsTypes, WorkersGoOn, CallOwned, MutexOwned, WrittenInv, Written,
           InStrips, OwesSlot, MatmulThreads, SlotCount
  <1>2. QED
    BY InitInv, StepInv, <1>1, PTL DEF StripsSpec

----------------------------------------------------------------------------
(* Theorems *)

\* The variables of ndmRunNStrips keep their types, for every size of the pool.
THEOREM StripsTypeCorrect == StripsSpec => []StripsTypeOK
  <1>1. IInv => StripsTypeOK
    BY DEF IInv, StripsTypes, StripsTypeOK, Stages
  <1>2. QED
    BY Invariance, <1>1, PTL

\* No column of a product is computed twice, and when the product is done none is missing:
\* ndmStripWorker's bounds, for every number of columns, alignment and size of the pool.
THEOREM ColumnsComputedOnce == StripsSpec => []ColumnsOnce
  <1>1. IInv => ColumnsOnce
    <2> SUFFICES ASSUME IInv, NEW t \in MatmulThreads
                 PROVE  /\ \A j \in DOMAIN written[t] : written[t][j] <= 1
                        /\ stage[t] = "end" => \A j \in DOMAIN written[t] : written[t][j] = 1
      BY DEF ColumnsOnce
    <2>1. Written(t) /\ DOMAIN written[t] = Columns(product[t]) /\ stage[t] \in Stages
      BY DEF IInv, WrittenInv, StripsTypes
    <2>2. CASE stage[t] = "idle" \/ (stage[t] = "wait" /\ forFn = "body")
      BY <2>1, <2>2, NoColumns DEF Written
    <2>3. CASE stage[t] \in Stages \ {"idle", "wait"} \/ InStrips(t)
      BY <2>1, <2>3 DEF Written, Stages, InStrips
    <2>4. forFn \in {"strips", "body"}
      BY DEF IInv, StripsTypes
    <2>5. QED
      BY <2>1, <2>2, <2>3, <2>4 DEF InStrips
  <1>2. QED
    BY Invariance, <1>1, PTL

\* Threads that compute products never wait for each other in a circle, so gemmPfor and
\* isWorkerThread do what ndmRunNStrips has them for: in a circle a thread would wait for
\* the mutex, its owner for a worker, and that worker for something; but workers go on.
THEOREM NobodyWaitsInACircle == StripsSpec => []NoCircle
  <1>1. IInv => NoCircle
    <2> SUFFICES ASSUME IInv, NEW circle \in (SUBSET MatmulThreads) \ {{}},
                        \A t \in circle : WaitsFor(t) \cap circle # {}
                 PROVE  FALSE
      BY Zenon DEF NoCircle
    <2>1. \A w \in poolWorkers : WaitsFor(w) = {}
      BY DEF IInv, WorkersGoOn, WaitsFor
    <2>2. circle \cap poolWorkers = {}
      BY <2>1
    <2>3. \A t \in circle : stage[t] = "lock" /\ gemmPfor \in circle
      BY <2>2 DEF WaitsFor
    <2>4. gemmPfor \in MatmulThreads /\ stage[gemmPfor] = "lock"
      <3>1. PICK t \in circle : TRUE
        OBVIOUS
      <3>2. QED
        BY <2>3, <3>1
    <2>5. QED
      BY <2>4 DEF IInv, MutexOwned, InStrips
  <1>2. QED
    BY Invariance, <1>1, PTL

\* Products that are computed in strips are complete, and nobody waits for ever for a strip.
THEOREM StripsAreRight == StripsSpec => []StripsRight
  <1>1. StripsRight <=> ColumnsOnce /\ NoCircle
    BY DEF StripsRight
  <1>2. QED
    BY <1>1, ColumnsComputedOnce, NobodyWaitsInACircle, PTL
=============================================================================
