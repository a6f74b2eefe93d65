--------------------------- MODULE EtssServiceProofs ---------------------------
(***************************************************************************)
(* Proofs about the ETSS service, for any clients, assets, requests, sizes *)
(* of the buffer and of files, with and without a file system per client,  *)
(* with and without failing reads and power.                               *)
(***************************************************************************)
EXTENDS EtssService, SequenceTheorems, TLAPS

-------------------------------------------------------------------------------
(* The inductive invariant *)

At == {"idle", "connecting", "connected", "calling", "called", "closing"}

Early == {"connecting", "connected", "calling"}

(* What is known of one client: only an idle one has no request, and none  *)
(* has data before it is answered.                                         *)
ClientOk(k) ==
    /\ {"at", "status"} \subseteq DOMAIN k /\ k.at \in At
    /\ k.at # "idle" => "req" \in DOMAIN k /\ k.req \in Request
    /\ k.at \in Early => "data" \notin DOMAIN k

(* The functions have their domains. *)
Shapes ==
    /\ DOMAIN store = Ctx /\ \A x \in Ctx : DOMAIN store[x] = Client \X Uid
    /\ DOMAIN may = Client /\ \A c \in Client : DOMAIN may[c] = Uid
    /\ DOMAIN cl = Client /\ \A c \in Client : ClientOk(cl[c])

(* A set past its first chunk: the request has passed every check, its     *)
(* client's file system is the selected one, and the file holds exactly    *)
(* the data before the offset.                                             *)
MidSet(c, r, off) ==
    /\ r.op = "set" /\ Len(r.data) <= MaxFile /\ off < Len(r.data)
    /\ CtxOf(c) \in Ctx /\ fs_ctx = CtxOf(c) /\ c \in AppInfo
    /\ File(c, r.uid) = Created(Part(r.data, 0, off), r.once)

(* A call is handled only while its client waits for it. *)
JobOk ==
    job # None =>
      /\ job \in [c : Client, off : Nat]
      /\ pc = "serve" /\ cl[job.c].at = "calling"
      /\ job.off > 0 => MidSet(job.c, cl[job.c].req, job.off)

Inv ==
    /\ TypeOK /\ Shapes /\ JobOk
    /\ AssetIsCallers /\ GetReturnsOwn /\ NoAccessUnprovisioned

-------------------------------------------------------------------------------
(* Parts of sequences *)

(* A prefix is a sequence, no longer than asked for. *)
LEMMA PrefixType ==
    ASSUME NEW S, NEW d \in Seq(S), NEW n \in Nat
    PROVE  /\ Part(d, 0, n) \in Seq(S)
           /\ Len(Part(d, 0, n)) = Least(n, Len(d))
<1> DEFINE m == Least(n, Len(d))
<1>1. m \in 0 .. Len(d)
  BY DEF Least
<1>2. Part(d, 0, n) = SubSeq(d, 1, m)
  BY DEF Part, Least
<1> HIDE DEF m
<1>3. \A i \in 1 .. m : d[i] \in S
  BY <1>1
<1>4. SubSeq(d, 1, m) \in Seq(S) /\ Len(SubSeq(d, 1, m)) = m
  BY <1>1, <1>3, SubSeqProperties
<1> QED
  BY <1>2, <1>4 DEF m

(* The first n items are all there are when n is the length or more. *)
LEMMA PartWhole ==
    ASSUME NEW S, NEW d \in Seq(S), NEW n \in Nat, Len(d) <= n
    PROVE  Part(d, 0, n) = d
<1>1. Part(d, 0, n) = SubSeq(d, 1, Len(d))
  BY DEF Part, Least
<1> QED
  BY <1>1, SubSeqFull

(* The prefix up to an offset and the next chunk are a longer prefix. *)
LEMMA PartContinued ==
    ASSUME NEW S, NEW d \in Seq(S), NEW off \in Nat, NEW n \in Nat, off < Len(d)
    PROVE  SubSeq(Part(d, 0, off), 1, off) \o Part(d, off, n) = Part(d, 0, off + n)
<1> DEFINE m == Least(off + n, Len(d))
           a == Part(d, 0, off)
<1>1. m \in off .. Len(d)
  BY DEF Least
<1>2. a = SubSeq(d, 1, off) /\ Part(d, off, n) = SubSeq(d, off + 1, m)
      /\ Part(d, 0, off + n) = SubSeq(d, 1, m)
  BY DEF Part, Least
<1>3. a \in Seq(S) /\ Len(a) = off
  BY PrefixType DEF Least
<1> HIDE DEF m, a
<1>4. SubSeq(a, 1, off) = a
  BY <1>3, SubSeqFull
<1>5. SubSeq(d, 1, off) \o SubSeq(d, off + 1, m) = SubSeq(d, 1, m)
  <2>1. 1 \in 1 .. Len(d) + 1 /\ off \in 1 - 1 .. Len(d)
    OBVIOUS
  <2> QED
    BY <1>1, <2>1, ConcatAdjacentSubSeq
<1> QED
  BY <1>2, <1>4, <1>5 DEF a

-------------------------------------------------------------------------------
(* What the operators of the model compute *)

Storage == {"set", "get", "get_info", "remove"}
AppIds == Client \cup {"none", "SP_ETSS"}

(* The record k is an answer that client c may have. *)
OwnAnswer(c, k) ==
    k.at = "called" =>
      /\ k.req.op = "get" => OwnPart(c, k)
      /\ c \notin AppInfo => k.status # "ok" \/ k.req.op \notin Storage

(* Only the record of client c changes. *)
OnlyClient(c) ==
    /\ DOMAIN cl' = Client /\ \A d \in Client \ {c} : cl'[d] = cl[d]
    /\ ClientOk(cl'[c])

LEMMA AnsweredFields ==
    ASSUME Shapes, NEW c \in Client, cl[c].at # "idle", NEW st, cl' = Answered(c, st)
    PROVE  /\ OnlyClient(c)
           /\ cl'[c].at = "called" /\ cl'[c].status = st /\ cl'[c].req = cl[c].req
           /\ DOMAIN cl'[c] = DOMAIN cl[c]
<1>1. /\ DOMAIN cl = Client /\ {"at", "status", "req"} \subseteq DOMAIN cl[c]
      /\ cl[c].req \in Request
  BY DEF Shapes, ClientOk
<1>2. cl'[c] = [[cl[c] EXCEPT !.at = "called"] EXCEPT !.status = st]
  BY <1>1 DEF Answered
<1>3. DOMAIN cl' = Client /\ \A d \in Client \ {c} : cl'[d] = cl[d]
  BY <1>1 DEF Answered
<1>4. /\ cl'[c].at = "called" /\ cl'[c].status = st /\ cl'[c].req = cl[c].req
      /\ DOMAIN cl'[c] = DOMAIN cl[c]
  BY <1>1, <1>2
<1> QED
  BY <1>1, <1>3, <1>4 DEF OnlyClient, ClientOk, At, Early

LEMMA MovedFields ==
    ASSUME Shapes, NEW c \in Client, cl[c].at # "idle", NEW a \in At,
           a \in Early => cl[c].at \in Early,
           cl' = [cl EXCEPT ![c].at = a]
    PROVE  OnlyClient(c) /\ cl'[c].at = a /\ cl'[c].req = cl[c].req
<1>1. /\ DOMAIN cl = Client /\ {"at", "status", "req"} \subseteq DOMAIN cl[c]
      /\ cl[c].req \in Request /\ (a \in Early => "data" \notin DOMAIN cl[c])
  BY DEF Shapes, ClientOk
<1>2. cl'[c] = [cl[c] EXCEPT !.at = a]
  BY <1>1
<1>3. DOMAIN cl' = Client /\ \A d \in Client \ {c} : cl'[d] = cl[d]
  BY <1>1
<1>4. cl'[c].at = a /\ cl'[c].req = cl[c].req /\ DOMAIN cl'[c] = DOMAIN cl[c]
  BY <1>1, <1>2
<1> QED
  BY <1>1, <1>3, <1>4 DEF OnlyClient, ClientOk

(* Only a client with access rights sees a file, and it is its own. *)
LEMMA InfoFields ==
    ASSUME NEW c \in Client, app_id' = c, NEW u,
           NEW info \in InfoOutcomes(c, u), info # None
    PROVE  c \in AppInfo /\ info = File(c, u)
BY ClientAssumption DEF InfoOutcomes, FlashOk

-------------------------------------------------------------------------------
(* The steps *)

LEMMA InvInit == Init => Inv
<1> SUFFICES ASSUME Init PROVE Inv
  OBVIOUS
<1>1. \A c \in Client : cl[c] = Idle
  BY DEF Init
<1>2. Shapes
  BY <1>1 DEF Init, Shapes, ClientOk, Idle, At, Early
<1>3. \A c \in Client, u \in Uid : may[c][u] = {None}
  BY DEF Init
<1>4. TypeOK
  BY <1>1, <1>3, ClientAssumption DEF Init, TypeOK, Idle, Asset, Ctx
<1>5. AssetIsCallers
  BY <1>3 DEF Init, AssetIsCallers, File, Fid
<1>6. GetReturnsOwn /\ NoAccessUnprovisioned
  BY <1>1 DEF Init, GetReturnsOwn, NoAccessUnprovisioned, Idle
<1>7. JobOk
  BY DEF Init, JobOk
<1> QED
  BY <1>2, <1>4, <1>5, <1>6, <1>7 DEF Inv

(* A step that leaves the files alone and changes one client only. *)
LEMMA ClientChange ==
    ASSUME Inv, NEW c \in Client, UNCHANGED <<store, may, pc>>, pc # "panic",
           provisioned' \in BOOLEAN, provisioned => provisioned',
           app_id' \in AppIds, fs_ctx' \in Ctx \cup {None},
           OnlyClient(c), OwnAnswer(c, cl'[c]),
           \/ job' = None
           \/ job' = [c |-> c, off |-> 0] /\ cl'[c].at = "calling" /\ pc = "serve"
           \/ job' = job /\ fs_ctx' = fs_ctx /\ (job # None => job.c # c)
    PROVE  Inv'
<1>1. TypeOK'
  <2>1. job' # None => job'.c \in Client /\ job'.off \in 0 .. MaxFile
    BY BufAssumption DEF Inv, TypeOK
  <2>2. \A d \in Client : cl'[d].at \in At
    BY DEF Inv, Shapes, OnlyClient, ClientOk
  <2>3. /\ \A x \in Ctx, f \in Client \X Uid :
             store'[x][f] # None => Len(store'[x][f].data) <= MaxFile
        /\ pc' \in {"init", "serve", "provision", "panic"}
        /\ \A d \in Client, u \in Uid : may'[d][u] \subseteq Asset
    BY DEF Inv, TypeOK
  <2> QED
    BY <2>1, <2>2, <2>3 DEF TypeOK, At, AppIds
<1>2. Shapes'
  BY DEF Inv, Shapes, OnlyClient
<1>3. JobOk'
  <2>1. CASE job' = [c |-> c, off |-> 0] /\ cl'[c].at = "calling" /\ pc = "serve"
    BY <2>1 DEF JobOk
  <2>2. CASE job' = job /\ fs_ctx' = fs_ctx /\ (job # None => job.c # c)
    <3>1. job # None => cl'[job.c] = cl[job.c]
      BY <2>2 DEF Inv, JobOk, OnlyClient
    <3> QED
      BY <2>2, <3>1 DEF Inv, JobOk, MidSet, File
  <2> QED
    BY <2>1, <2>2 DEF JobOk
<1>4. AssetIsCallers'
  BY DEF Inv, AssetIsCallers, File
<1>5. GetReturnsOwn'
  BY DEF Inv, GetReturnsOwn, OwnAnswer, OwnPart, OnlyClient
<1>6. NoAccessUnprovisioned'
  BY DEF Inv, NoAccessUnprovisioned, OwnAnswer, OnlyClient, Storage
<1> QED
  BY <1>1, <1>2, <1>3, <1>4, <1>5, <1>6 DEF Inv

(* The call is answered and gives nothing away. *)
LEMMA PlainAnswer ==
    ASSUME Inv, job # None, NEW st, cl' = Answered(job.c, st),
           st # "ok" \/ cl[job.c].req.op \notin Storage,
           UNCHANGED <<provisioned, store, may, pc>>, job' = None,
           app_id' \in AppIds, fs_ctx' \in Ctx \cup {None}
    PROVE  Inv'
<1>1. job.c \in Client /\ pc = "serve" /\ cl[job.c].at = "calling"
  BY DEF Inv, JobOk
<1>2. /\ OnlyClient(job.c) /\ cl'[job.c].status = st /\ cl'[job.c].req = cl[job.c].req
      /\ DOMAIN cl'[job.c] = DOMAIN cl[job.c]
  BY <1>1, AnsweredFields DEF Inv
<1>3. "data" \notin DOMAIN cl'[job.c]
  BY <1>1, <1>2 DEF Inv, Shapes, ClientOk, Early
<1>4. OwnAnswer(job.c, cl'[job.c])
  BY <1>2, <1>3 DEF OwnAnswer, OwnPart, Storage
<1>5. provisioned' \in BOOLEAN
  BY DEF Inv, TypeOK
<1> QED
  BY <1>1, <1>2, <1>4, <1>5, ClientChange

(* The call in hand, and what is known of it. *)
LEMMA JobFields ==
    ASSUME Inv, job # None
    PROVE  /\ job \in [c : Client, off : Nat] /\ pc = "serve"
           /\ cl[job.c].at = "calling" /\ cl[job.c].req \in Request
           /\ app_id \in AppIds /\ fs_ctx \in Ctx \cup {None}
BY DEF Inv, JobOk, Shapes, ClientOk, TypeOK, AppIds

LEMMA PassOnFields ==
    ASSUME Inv, NEW c \in Client, PassOn(c)
    PROVE  /\ app_id' = c /\ app_id' \in AppIds /\ fs_ctx' \in Ctx \cup {None}
           /\ CtxOf(c) \in Ctx => fs_ctx' = CtxOf(c)
BY DEF PassOn, AppIds, Inv, TypeOK

LEMMA RefuseStep == Inv /\ Refuse => Inv'
<1> SUFFICES ASSUME Inv, Refuse PROVE Inv'
  OBVIOUS
<1> DEFINE c == job.c
           r == cl[c].req
<1>1. /\ job # None /\ job' = None /\ UNCHANGED <<provisioned, store, pc, may>>
      /\ \/ /\ Checked(c, r) # "ok"
            /\ cl' = Answered(c, Checked(c, r))
            /\ UNCHANGED <<app_id, fs_ctx>>
         \/ PassOn(c) /\ cl' = Answered(c, "not_permitted")
  BY DEF Refuse
<1>2. c \in Client /\ app_id \in AppIds /\ fs_ctx \in Ctx \cup {None}
  BY <1>1, JobFields
<1>3. CASE Checked(c, r) # "ok" /\ cl' = Answered(c, Checked(c, r))
             /\ UNCHANGED <<app_id, fs_ctx>>
  BY <1>1, <1>2, <1>3, PlainAnswer
<1>4. CASE PassOn(c) /\ cl' = Answered(c, "not_permitted")
  <2>1. app_id' \in AppIds /\ fs_ctx' \in Ctx \cup {None}
    BY <1>2, <1>4, PassOnFields
  <2>2. "not_permitted" # "ok"
    OBVIOUS
  <2> QED
    BY <1>1, <1>4, <2>1, <2>2, PlainAnswer
<1> QED
  BY <1>1, <1>3, <1>4

LEMMA FeatureCallStep == Inv /\ FeatureCall => Inv'
<1> SUFFICES ASSUME Inv, FeatureCall PROVE Inv'
  OBVIOUS
<1> DEFINE r == cl[job.c].req
           st == IF FeatureOf(r.op) \in Feature THEN "ok" ELSE "not_supported"
<1>1. /\ job # None /\ job' = None /\ UNCHANGED <<provisioned, store, pc, app_id, fs_ctx, may>>
      /\ cl' = Answered(job.c, st) /\ r.op \notin Storage
  BY DEF FeatureCall, Storage
<1>2. app_id \in AppIds /\ fs_ctx \in Ctx \cup {None}
  BY <1>1, JobFields
<1> HIDE DEF st
<1> QED
  BY <1>1, <1>2, PlainAnswer

(* A get or an enquiry is answered with the record k. *)
LEMMA RecordAnswer ==
    ASSUME Inv, job # None, NEW k, cl' = [cl EXCEPT ![job.c] = k], PassOn(job.c),
           {"at", "status", "req"} \subseteq DOMAIN k,
           k.at = "called", k.req = cl[job.c].req, OwnAnswer(job.c, k),
           UNCHANGED <<provisioned, store, may, pc>>, job' = None
    PROVE  Inv'
<1>1. job.c \in Client /\ pc = "serve" /\ cl[job.c].req \in Request
  BY JobFields
<1>2. cl'[job.c] = k /\ OnlyClient(job.c)
  BY <1>1 DEF Inv, Shapes, OnlyClient, ClientOk, At, Early
<1>3. app_id' \in AppIds /\ fs_ctx' \in Ctx \cup {None}
  BY <1>1, PassOnFields
<1>4. provisioned' \in BOOLEAN
  BY DEF Inv, TypeOK
<1> QED
  BY <1>1, <1>2, <1>3, <1>4, ClientChange

LEMMA GetStep == Inv /\ Get => Inv'
<1> SUFFICES ASSUME Inv, Get PROVE Inv'
  OBVIOUS
<1> DEFINE c == job.c
           r == cl[c].req
           k(a) == [at |-> "called", req |-> r, status |-> a.status, data |-> a.data]
<1>1. /\ job # None /\ job' = None /\ UNCHANGED <<provisioned, store, pc, may>>
      /\ r.op = "get" /\ CtxOf(c) \in Ctx /\ PassOn(c)
  BY DEF Get, NoCtx
<1>2. PICK info \in InfoOutcomes(c, r.uid) :
        \E a \in GetOutcomes(r, info) : cl' = [cl EXCEPT ![c] = k(a)]
  BY DEF Get
<1>3. PICK a \in GetOutcomes(r, info) : cl' = [cl EXCEPT ![c] = k(a)]
  BY <1>2
<1>4. c \in Client /\ r \in Request
  BY <1>1, JobFields
<1>5. app_id' = c
  BY <1>1, <1>4, PassOnFields
<1>6. r.uid \in Uid /\ r.offset \in Nat /\ r.size \in Nat
  BY <1>1, <1>4, RequestAssumption
<1>7. /\ {"at", "status", "req"} \subseteq DOMAIN k(a) /\ k(a).at = "called"
      /\ k(a).req = r /\ k(a).status = a.status /\ k(a).data = a.data
  OBVIOUS
<1>8. OwnAnswer(c, k(a))
  <2>1. CASE a.status # "ok" /\ a.data = << >>
    BY <1>7, <2>1 DEF OwnAnswer, OwnPart
  <2>2. CASE /\ info # None
             /\ \E n \in 0 .. r.size : /\ a.data = Part(info.data, r.offset, n)
                                       /\ a.status = "ok" => n = r.size
    <3>1. c \in AppInfo /\ info = File(c, r.uid)
      BY <1>2, <1>4, <1>5, <2>2, InfoFields
    <3>2. info \in may[c][r.uid] \ {None}
      BY <1>1, <1>4, <1>6, <2>2, <3>1 DEF Inv, AssetIsCallers
    <3>3. OwnPart(c, k(a))
      <4> HIDE DEF k, r
      <4> QED
        BY <1>7, <2>2, <3>2 DEF OwnPart
    <3> QED
      BY <3>1, <3>3 DEF OwnAnswer
  <2>3. CASE info # None /\ a = Slice(r, info)
    <3>1. r.size \in 0 .. r.size
      BY <1>6
    <3> QED
      BY <2>1, <2>2, <2>3, <3>1 DEF Slice
  <2>4. CASE /\ info # None
             /\ \E st \in {"does_not_exist", "generic_error"} : a \in CutShort(r, info, st)
    <3>1. PICK n \in 0 .. r.size :
            \E st \in {"does_not_exist", "generic_error"} :
              a = [status |-> st, data |-> Part(info.data, r.offset, n)]
      BY <2>4 DEF CutShort
    <3> QED
      BY <2>2, <2>4, <3>1
  <2> QED
    BY <1>3, <2>1, <2>3, <2>4 DEF GetOutcomes
<1> HIDE DEF k
<1> QED
  BY <1>1, <1>3, <1>7, <1>8, RecordAnswer

LEMMA GetInfoStep == Inv /\ GetInfo => Inv'
<1> SUFFICES ASSUME Inv, GetInfo PROVE Inv'
  OBVIOUS
<1> DEFINE c == job.c
           r == cl[c].req
           k(info) == [at |-> "called", req |-> r, status |-> "ok", info |-> InfoOf(info)]
<1>1. /\ job # None /\ job' = None /\ UNCHANGED <<provisioned, store, pc, may>>
      /\ r.op = "get_info" /\ PassOn(c)
  BY DEF GetInfo
<1>2. PICK info \in InfoOutcomes(c, r.uid) :
        cl' = IF info = None THEN Answered(c, "does_not_exist")
              ELSE [cl EXCEPT ![c] = k(info)]
  BY DEF GetInfo
<1>3. c \in Client
  BY <1>1, JobFields
<1>4. app_id' = c /\ app_id' \in AppIds /\ fs_ctx' \in Ctx \cup {None}
  BY <1>1, <1>3, PassOnFields
<1>5. CASE info = None
  <2>1. cl' = Answered(c, "does_not_exist") /\ "does_not_exist" # "ok"
    BY <1>2, <1>5
  <2> QED
    BY <1>1, <1>4, <2>1, PlainAnswer
<1>6. CASE info # None
  <2>1. c \in AppInfo
    BY <1>2, <1>3, <1>4, <1>6, InfoFields
  <2>2. OwnAnswer(c, k(info))
    BY <1>1, <2>1 DEF OwnAnswer
  <2>3. /\ {"at", "status", "req"} \subseteq DOMAIN k(info) /\ k(info).at = "called"
        /\ k(info).req = r /\ cl' = [cl EXCEPT ![c] = k(info)]
    BY <1>2, <1>6
  <2> HIDE DEF k
  <2> QED
    BY <1>1, <2>2, <2>3, RecordAnswer
<1> QED
  BY <1>5, <1>6

(* A file of the client whose call is handled changes; the history of what *)
(* it may be changes with it.                                              *)
LEMMA FileChange ==
    ASSUME Inv, NEW c \in Client, NEW u \in Uid, c \in AppInfo, CtxOf(c) \in Ctx,
           NEW file, NEW S, file \in S, S \subseteq Asset,
           file # None => Len(file.data) <= MaxFile,
           store' = [store EXCEPT ![CtxOf(c)][Fid(c, u)] = file],
           may' = [may EXCEPT ![c][u] = S],
           UNCHANGED <<provisioned, pc>>, pc = "serve",
           app_id' \in AppIds, fs_ctx' \in Ctx \cup {None},
           OnlyClient(c), cl'[c].at = "called" => cl'[c].req.op # "get",
           job' # None =>
             /\ job' \in [c : {c}, off : 0 .. MaxFile] /\ cl'[c].at = "calling"
             /\ MidSet(job.c, cl[job.c].req, job.off)'
    PROVE  Inv'
<1>1. /\ store'[CtxOf(c)][Fid(c, u)] = file
      /\ \A x \in Ctx, f \in Client \X Uid :
           x # CtxOf(c) \/ f # Fid(c, u) => store'[x][f] = store[x][f]
      /\ DOMAIN store' = Ctx /\ \A x \in Ctx : DOMAIN store'[x] = Client \X Uid
  BY DEF Inv, Shapes, Fid
<1>2. /\ may'[c][u] = S
      /\ \A d \in Client, v \in Uid : d # c \/ v # u => may'[d][v] = may[d][v]
      /\ DOMAIN may' = Client /\ \A d \in Client : DOMAIN may'[d] = Uid
  BY DEF Inv, Shapes
<1>3. TypeOK'
  <2>1. \A x \in Ctx, f \in Client \X Uid :
          store'[x][f] # None => Len(store'[x][f].data) <= MaxFile
    BY <1>1 DEF Inv, TypeOK
  <2>2. \A d \in Client, v \in Uid : may'[d][v] \subseteq Asset
    BY <1>2 DEF Inv, TypeOK
  <2>3. \A d \in Client : cl'[d].at \in At
    BY DEF Inv, Shapes, OnlyClient, ClientOk
  <2>4. job' # None => job'.c \in Client /\ job'.off \in 0 .. MaxFile
    OBVIOUS
  <2>5. provisioned' \in BOOLEAN /\ pc' = "serve"
    BY DEF Inv, TypeOK
  <2> QED
    BY <2>1, <2>2, <2>3, <2>4, <2>5 DEF TypeOK, At, AppIds
<1>4. Shapes'
  BY <1>1, <1>2 DEF Inv, Shapes, OnlyClient
<1>5. JobOk'
  <2>1. MaxFile \in Nat
    BY BufAssumption
  <2> QED
    BY <2>1 DEF JobOk, MidSet, File
<1>6. AssetIsCallers'
  <2> SUFFICES ASSUME NEW d \in Client, NEW v \in Uid, CtxOf(d) \in Ctx
               PROVE  store'[CtxOf(d)][Fid(d, v)] \in may'[d][v]
    BY DEF AssetIsCallers, File
  <2>1. CASE d = c /\ v = u
    BY <1>1, <1>2, <2>1
  <2>2. CASE d # c \/ v # u
    <3>1. Fid(d, v) # Fid(c, u) /\ Fid(d, v) \in Client \X Uid
      BY <2>2 DEF Fid
    <3>2. store'[CtxOf(d)][Fid(d, v)] = store[CtxOf(d)][Fid(d, v)]
      BY <1>1, <3>1
    <3>3. store[CtxOf(d)][Fid(d, v)] \in may[d][v]
      BY DEF Inv, AssetIsCallers, File
    <3> QED
      BY <1>2, <2>2, <3>2, <3>3
  <2> QED
    BY <2>1, <2>2
<1>7. GetReturnsOwn'
  <2> SUFFICES ASSUME NEW d \in Client, cl'[d].at = "called", cl'[d].req.op = "get"
               PROVE  OwnPart(d, cl[d])'
    BY DEF GetReturnsOwn
  <2>1. d # c /\ cl'[d] = cl[d]
    BY DEF OnlyClient
  <2>2. cl[d].req.uid \in Uid
    BY <2>1, RequestAssumption DEF Inv, Shapes, ClientOk
  <2>3. may'[d][cl[d].req.uid] = may[d][cl[d].req.uid]
    BY <1>2, <2>1, <2>2
  <2>4. OwnPart(d, cl[d])
    BY <2>1 DEF Inv, GetReturnsOwn
  <2> QED
    BY <2>1, <2>3, <2>4 DEF OwnPart
<1>8. NoAccessUnprovisioned'
  <2> SUFFICES ASSUME NEW d \in Client \ AppInfo
               PROVE  /\ \A x \in Ctx, v \in Uid : store'[x][<<d, v>>] = None
                      /\ cl'[d].at = "called" =>
                           cl'[d].status # "ok" \/ cl'[d].req.op \notin Storage
    BY DEF NoAccessUnprovisioned, Storage
  <2>1. d # c /\ cl'[d] = cl[d]
    BY DEF OnlyClient
  <2>2. \A v \in Uid : <<d, v>> \in Client \X Uid /\ <<d, v>> # Fid(c, u)
    BY <2>1 DEF Fid
  <2> QED
    BY <1>1, <2>1, <2>2 DEF Inv, NoAccessUnprovisioned, Storage
<1> QED
  BY <1>3, <1>4, <1>5, <1>6, <1>7, <1>8 DEF Inv

(* A request is refused or fails in the file system. *)
LEMMA FailStep ==
    ASSUME Inv, job # None, NEW st, st # "ok", Fail(job.c, st),
           UNCHANGED <<provisioned, pc>>, app_id' \in AppIds, fs_ctx' \in Ctx \cup {None}
    PROVE  Inv'
BY PlainAnswer DEF Fail

LEMMA RemoveStep == Inv /\ Remove => Inv'
<1> SUFFICES ASSUME Inv, Remove PROVE Inv'
  OBVIOUS
<1> DEFINE c == job.c
           r == cl[c].req
<1>1. /\ job # None /\ UNCHANGED <<provisioned, pc>>
      /\ r.op = "remove" /\ CtxOf(c) \in Ctx /\ PassOn(c)
  BY DEF Remove, NoCtx
<1>2. PICK info \in InfoOutcomes(c, r.uid) :
        \/ Fail(c, "does_not_exist") \/ Fail(c, "not_permitted")
        \/ /\ info # None
           /\ store' = [store EXCEPT ![fs_ctx'][Fid(c, r.uid)] = None]
           /\ may' = [may EXCEPT ![c][r.uid] = {None}]
           /\ cl' = Answered(c, "ok") /\ job' = None
  BY DEF Remove
<1>3. c \in Client /\ r \in Request /\ cl[c].at = "calling" /\ pc = "serve"
  BY <1>1, JobFields
<1>4. /\ app_id' = c /\ app_id' \in AppIds /\ fs_ctx' \in Ctx \cup {None}
      /\ fs_ctx' = CtxOf(c)
  BY <1>1, <1>3, PassOnFields
<1>5. CASE Fail(c, "does_not_exist") \/ Fail(c, "not_permitted")
  <2>1. "does_not_exist" # "ok" /\ "not_permitted" # "ok"
    OBVIOUS
  <2> QED
    BY <1>1, <1>4, <1>5, <2>1, FailStep
<1>6. CASE /\ info # None
           /\ store' = [store EXCEPT ![fs_ctx'][Fid(c, r.uid)] = None]
           /\ may' = [may EXCEPT ![c][r.uid] = {None}]
           /\ cl' = Answered(c, "ok") /\ job' = None
  <2>1. c \in AppInfo
    BY <1>2, <1>3, <1>4, <1>6, InfoFields
  <2>2. r.uid \in Uid
    BY <1>1, <1>3, RequestAssumption
  <2>3. OnlyClient(c) /\ cl'[c].req = r
    BY <1>3, <1>6, AnsweredFields DEF Inv
  <2> DEFINE u == r.uid
             S == {None}
             file == None
  <2>4. file \in S /\ S \subseteq Asset /\ (file # None => Len(file.data) <= MaxFile)
    BY DEF Asset
  <2>5. /\ u \in Uid /\ may' = [may EXCEPT ![c][u] = S]
        /\ store' = [store EXCEPT ![CtxOf(c)][Fid(c, u)] = file]
    BY <1>4, <1>6, <2>2
  <2>6. /\ c \in Client /\ CtxOf(c) \in Ctx /\ pc = "serve" /\ job' = None
        /\ UNCHANGED <<provisioned, pc>> /\ app_id' \in AppIds
        /\ fs_ctx' \in Ctx \cup {None} /\ cl'[c].req.op # "get"
    BY <1>1, <1>3, <1>4, <1>6, <2>3
  <2> HIDE DEF u, c, r, S, file
  <2> QED
    BY <2>1, <2>3, <2>4, <2>5, <2>6, FileChange
<1> QED
  BY <1>2, <1>5, <1>6

(* One chunk of a set is written: the file is then the data up to the end  *)
(* of that chunk.                                                          *)
LEMMA WriteChunkStep ==
    ASSUME Inv, job # None, cl[job.c].req.op = "set",
           CtxOf(job.c) \in Ctx, job.c \in AppInfo, Len(cl[job.c].req.data) <= MaxFile,
           WriteChunk(job.c, cl[job.c].req,
                      Created(Part(cl[job.c].req.data, 0, job.off + BufSize),
                              cl[job.c].req.once)),
           UNCHANGED <<provisioned, pc>>, app_id' \in AppIds, fs_ctx' = CtxOf(job.c)
    PROVE  Inv'
<1> DEFINE c == job.c
           r == cl[c].req
           u == r.uid
           n == job.off + BufSize
           file == Created(Part(r.data, 0, n), r.once)
           whole == Created(r.data, r.once)
<1>1. /\ job \in [c : Client, off : Nat] /\ pc = "serve" /\ cl[c].at = "calling"
      /\ c \in Client /\ r \in Request
  BY JobFields
<1>2. u \in Uid /\ r.data \in Seq(0 .. 255) /\ r.once \in BOOLEAN
  BY <1>1, RequestAssumption
<1>3. BufSize \in Nat \ {0} /\ MaxFile \in Nat \ {0} /\ n \in Nat \ {0}
  BY <1>1, BufAssumption
<1>4. r \in {q \in Request : q.op = "set"}
  BY <1>1
<1>5. \A m \in 1 .. MaxFile : Created(Part(r.data, 0, m), r.once) \in Asset
  BY <1>4 DEF Asset
<1>6. whole \in Asset
  <2>1. Part(r.data, 0, MaxFile) = r.data
    BY <1>2, <1>3, PartWhole
  <2>2. MaxFile \in 1 .. MaxFile
    BY <1>3
  <2> QED
    BY <1>5, <2>1, <2>2
<1>7. store' = [store EXCEPT ![CtxOf(c)][Fid(c, u)] = file]
  BY DEF WriteChunk
<1>8. fs_ctx' \in Ctx \cup {None}
  OBVIOUS
<1>9. Len(file.data) <= MaxFile
  <2> DEFINE d == r.data
  <2>1. d \in Seq(0 .. 255) /\ n \in Nat /\ Len(d) \in Nat /\ Len(d) <= MaxFile
    BY <1>2, <1>3
  <2>2. Len(Part(d, 0, n)) = Least(n, Len(d))
    <3> HIDE DEF d, n
    <3> QED
      BY <2>1, PrefixType
  <2>3. Least(n, Len(d)) <= Len(d)
    <3> HIDE DEF d, n
    <3> QED
      BY <2>1 DEF Least
  <2> QED
    BY <1>3, <2>1, <2>2, <2>3 DEF Created
<1>10. CASE IsLast(r, job.off)
  <2> DEFINE S == {whole}
  <2>1. cl' = Answered(c, "ok") /\ job' = None /\ may' = [may EXCEPT ![c][u] = S]
    BY <1>10 DEF WriteChunk
  <2>2. Part(r.data, 0, n) = r.data
    <3>1. Len(r.data) <= n
      BY <1>10 DEF IsLast
    <3> QED
      BY <1>2, <1>3, <3>1, PartWhole
  <2>3. file \in S /\ S \subseteq Asset
    BY <1>6, <2>2
  <2>4. OnlyClient(c) /\ cl'[c].req.op # "get"
    BY <1>1, <2>1, AnsweredFields DEF Inv
  <2> HIDE DEF c, r, u, n, file, S
  <2> QED
    BY <1>1, <1>2, <1>7, <1>8, <1>9, <2>1, <2>3, <2>4, FileChange DEF c
<1>11. CASE ~IsLast(r, job.off)
  <2> DEFINE S == may[c][u] \cup {file}
  <2>1. /\ job' = [job EXCEPT !.off = @ + BufSize] /\ cl' = cl
        /\ may' = [may EXCEPT ![c][u] = S]
    BY <1>11 DEF WriteChunk
  <2>2. job' = [c |-> c, off |-> n]
    BY <1>1, <2>1
  <2>3. Len(r.data) \in Nat /\ n < Len(r.data)
    BY <1>2, <1>3, <1>11 DEF IsLast
  <2>4. n \in 1 .. MaxFile
    BY <1>3, <2>3
  <2>5. file \in S /\ S \subseteq Asset
    <3>1. may[c][u] \subseteq Asset
      BY <1>1, <1>2 DEF Inv, TypeOK
    <3> QED
      BY <1>5, <2>4, <3>1
  <2>6. OnlyClient(c) /\ cl'[c].at = "calling"
    BY <1>1, <2>1 DEF OnlyClient, Inv, Shapes
  <2>7. MidSet(job.c, cl[job.c].req, job.off)'
    <3>1. store'[CtxOf(c)][Fid(c, u)] = file
      BY <1>1, <1>2, <1>7 DEF Inv, Shapes, Fid
    <3>2. job'.c = c /\ job'.off = n /\ cl'[job'.c].req = r
      BY <2>1, <2>2
    <3> HIDE DEF n
    <3> QED
      BY <2>3, <3>1, <3>2 DEF MidSet, File
  <2>8. job' \in [c : {c}, off : 0 .. MaxFile]
    BY <2>2, <2>4
  <2> HIDE DEF c, r, u, n, file, S
  <2> QED
    BY <1>1, <1>2, <1>7, <1>8, <1>9, <2>1, <2>5, <2>6, <2>7, <2>8, FileChange DEF c
<1> QED
  BY <1>10, <1>11

LEMMA SetFirstStep == Inv /\ SetFirst => Inv'
<1> SUFFICES ASSUME Inv, SetFirst PROVE Inv'
  OBVIOUS
<1> DEFINE c == job.c
           r == cl[c].req
<1>1. /\ job # None /\ job.off = 0 /\ UNCHANGED <<provisioned, pc>>
      /\ r.op = "set" /\ CtxOf(c) \in Ctx /\ PassOn(c)
  BY DEF SetFirst, NoCtx
<1>2. \/ \E st \in {"not_permitted", "generic_error", "invalid_argument"} : Fail(c, st)
      \/ FlashOk /\ Fits(r) /\ WriteChunk(c, r, Created(Chunk(r, 0), r.once))
  BY DEF SetFirst
<1>3. c \in Client
  BY <1>1, JobFields
<1>4. /\ app_id' = c /\ app_id' \in AppIds /\ fs_ctx' \in Ctx \cup {None}
      /\ fs_ctx' = CtxOf(c)
  BY <1>1, <1>3, PassOnFields
<1>5. CASE \E st \in {"not_permitted", "generic_error", "invalid_argument"} : Fail(c, st)
  <2>1. PICK st : Fail(c, st) /\ st # "ok"
    BY <1>5
  <2> QED
    BY <1>1, <1>4, <2>1, FailStep
<1>6. CASE FlashOk /\ Fits(r) /\ WriteChunk(c, r, Created(Chunk(r, 0), r.once))
  <2>1. c \in AppInfo
    BY <1>3, <1>4, <1>6, ClientAssumption DEF FlashOk
  <2>2. job.off + BufSize = 0 + BufSize
    BY <1>1
  <2>3. BufSize = 0 + BufSize
    BY BufAssumption
  <2>4. Chunk(r, 0) = Part(r.data, 0, job.off + BufSize)
    BY <2>2, <2>3 DEF Chunk
  <2>5. Len(r.data) <= MaxFile
    BY <1>6 DEF Fits
  <2>6. WriteChunk(c, r, Created(Part(r.data, 0, job.off + BufSize), r.once))
    BY <1>6, <2>4
  <2> QED
    BY <1>1, <1>4, <2>1, <2>5, <2>6, WriteChunkStep
<1> QED
  BY <1>2, <1>5, <1>6

LEMMA SetNextStep == Inv /\ SetNext => Inv'
<1> SUFFICES ASSUME Inv, SetNext PROVE Inv'
  OBVIOUS
<1> DEFINE c == job.c
           r == cl[c].req
<1>1. /\ job # None /\ job.off > 0 /\ UNCHANGED <<provisioned, pc, app_id, fs_ctx>>
      /\ r.op = "set"
      /\ \/ Fail(c, "generic_error")
         \/ WriteChunk(c, r, Continued(File(c, r.uid), job.off, Chunk(r, job.off)))
  BY DEF SetNext
<1>2. /\ job \in [c : Client, off : Nat] /\ r \in Request
      /\ app_id \in AppIds /\ fs_ctx \in Ctx \cup {None}
  BY <1>1, JobFields
<1>3. MidSet(c, r, job.off)
  BY <1>1 DEF Inv, JobOk
<1>4. CASE Fail(c, "generic_error")
  <2>1. "generic_error" # "ok"
    OBVIOUS
  <2> QED
    BY <1>1, <1>2, <1>4, <2>1, FailStep
<1>5. CASE WriteChunk(c, r, Continued(File(c, r.uid), job.off, Chunk(r, job.off)))
  <2> DEFINE d == r.data
             off == job.off
  <2>1. d \in Seq(0 .. 255) /\ off \in Nat /\ off < Len(d) /\ BufSize \in Nat
    BY <1>1, <1>2, <1>3, RequestAssumption, BufAssumption DEF MidSet
  <2>2. SubSeq(Part(d, 0, off), 1, off) \o Part(d, off, BufSize)
          = Part(d, 0, off + BufSize)
    <3> HIDE DEF d, off
    <3> QED
      BY <2>1, PartContinued
  <2>3. File(c, r.uid) = [data |-> Part(d, 0, off), once |-> r.once]
    BY <1>3 DEF MidSet, Created
  <2>4. Continued(File(c, r.uid), off, Chunk(r, off))
          = [data |-> SubSeq(Part(d, 0, off), 1, off) \o Part(d, off, BufSize),
             once |-> r.once]
    <3> DEFINE f == File(c, r.uid)
               a == Part(d, 0, off)
               b == Part(d, off, BufSize)
    <3>1. Continued(f, off, Chunk(r, off)) = [f EXCEPT !.data = SubSeq(@, 1, off) \o b]
      BY DEF Continued, Chunk
    <3>2. f = [data |-> a, once |-> r.once]
      BY <2>3
    <3> HIDE DEF f, a, b, d, off, c, r
    <3> DEFINE e == SubSeq(a, 1, off) \o b
    <3>3. Continued(f, off, Chunk(r, off)) = [f EXCEPT !.data = e]
      BY <3>1, <3>2
    <3> HIDE DEF e
    <3>4. Continued(f, off, Chunk(r, off)) = [data |-> e, once |-> r.once]
      BY <3>2, <3>3
    <3> QED
      BY <3>4 DEF f, a, b, e
  <2>5. Continued(File(c, r.uid), off, Chunk(r, off))
          = Created(Part(d, 0, off + BufSize), r.once)
    BY <2>2, <2>4 DEF Created
  <2>6. WriteChunk(c, r, Created(Part(d, 0, off + BufSize), r.once))
    BY <1>5, <2>5
  <2> QED
    BY <1>1, <1>2, <1>3, <2>6, WriteChunkStep DEF MidSet
<1> QED
  BY <1>1, <1>4, <1>5

(* The device starts, starts again or gives up; no call is in hand. *)
LEMMA RestartStep == Inv /\ (Boot \/ UnknownSignal \/ PowerFail) => Inv'
<1> SUFFICES ASSUME Inv, Boot \/ UnknownSignal \/ PowerFail PROVE Inv'
  OBVIOUS
<1>1. UNCHANGED <<provisioned, store, may>>
  BY DEF Boot, UnknownSignal, PowerFail
<1>2. job' = None
  BY DEF Inv, JobOk, Boot, UnknownSignal, PowerFail
<1>3. (UNCHANGED cl /\ pc # "panic") \/ (cl' = [c \in Client |-> Idle] /\ pc' = "init")
  BY DEF Boot, UnknownSignal, PowerFail
<1>4. /\ pc' \in {"init", "serve", "provision", "panic"} /\ app_id' \in AppIds
      /\ fs_ctx' \in Ctx \cup {None}
  BY DEF Boot, UnknownSignal, PowerFail, Inv, TypeOK, AppIds, Ctx
<1>5. DOMAIN cl' = Client /\ \A c \in Client : cl'[c] = cl[c] \/ cl'[c] = Idle
  BY <1>3 DEF Inv, Shapes
<1>6. \A c \in Client : ClientOk(cl'[c])
  BY <1>5 DEF Inv, Shapes, ClientOk, Idle, At, Early
<1>7. TypeOK'
  <2>1. /\ \A x \in Ctx, f \in Client \X Uid :
             store'[x][f] # None => Len(store'[x][f].data) <= MaxFile
        /\ provisioned' \in BOOLEAN
        /\ \A d \in Client, u \in Uid : may'[d][u] \subseteq Asset
    BY <1>1 DEF Inv, TypeOK
  <2>2. \A c \in Client : cl'[c].at \in At
    BY <1>6 DEF ClientOk
  <2> QED
    BY <1>2, <1>4, <2>1, <2>2 DEF TypeOK, At, AppIds
<1>8. Shapes' /\ JobOk'
  BY <1>1, <1>2, <1>5, <1>6 DEF Inv, Shapes, JobOk
<1>9. AssetIsCallers'
  BY <1>1 DEF Inv, AssetIsCallers, File
<1>10. GetReturnsOwn'
  BY <1>1, <1>5 DEF Inv, GetReturnsOwn, OwnPart, Idle
<1>11. NoAccessUnprovisioned'
  BY <1>1, <1>5 DEF Inv, NoAccessUnprovisioned, Idle
<1> QED
  BY <1>7, <1>8, <1>9, <1>10, <1>11 DEF Inv

(* A client connects, calls or closes. *)
LEMMA ClientSteps ==
    ASSUME Inv, NEW c \in Client, ClientStep(c) \/ \E r \in Calls[c] : Start(c, r)
    PROVE  Inv'
<1>1. /\ UNCHANGED <<provisioned, store, pc, app_id, fs_ctx, job, may>> /\ pc # "panic"
      /\ cl[c].at \in {"idle", "connected", "called"}
  BY DEF ClientStep, Start
<1>2. /\ provisioned' \in BOOLEAN /\ (provisioned => provisioned') /\ app_id' \in AppIds
      /\ fs_ctx' \in Ctx \cup {None} /\ (job # None => job.c # c)
  BY <1>1 DEF Inv, TypeOK, JobOk, AppIds
<1>3. OnlyClient(c) /\ cl'[c].at # "called"
  <2>1. CASE ClientStep(c)
    <3>1. PICK a \in At : /\ a # "called" /\ cl' = [cl EXCEPT ![c].at = a]
                          /\ a \in Early => cl[c].at \in Early
      BY <2>1 DEF ClientStep, At, Early
    <3>2. cl[c].at # "idle"
      BY <2>1 DEF ClientStep
    <3> QED
      BY <3>1, <3>2, MovedFields DEF Inv
  <2>2. CASE \E r \in Calls[c] : Start(c, r)
    <3>1. PICK r \in Request :
            cl' = [cl EXCEPT ![c] = [at |-> "connecting", req |-> r, status |-> "none"]]
      BY <2>2, CallsAssumption DEF Start
    <3> QED
      BY <3>1 DEF Inv, Shapes, OnlyClient, ClientOk, At, Early
  <2> QED
    BY <2>1, <2>2
<1>4. OwnAnswer(c, cl'[c])
  BY <1>3 DEF OwnAnswer
<1> QED
  BY <1>1, <1>2, <1>3, <1>4, ClientChange

(* What the signal handler makes of a waiting client. *)
LEMMA AcceptFields ==
    ASSUME Inv, NEW c \in Client, Waiting(c), Accept(c)
    PROVE  /\ OnlyClient(c) /\ cl'[c].at # "called"
           /\ \/ job' = None
              \/ /\ cl[c].at = "calling" /\ cl'[c].at = "calling"
                 /\ job' = [c |-> c, off |-> 0]
<1>1. CASE cl[c].at = "connecting"
  <2>1. cl' = [cl EXCEPT ![c].at = "connected"] /\ job' = None
    BY <1>1 DEF Accept
  <2>2. "connected" \in At /\ cl[c].at \in Early
    BY <1>1 DEF At, Early
  <2> QED
    BY <1>1, <2>1, <2>2, MovedFields DEF Inv
<1>2. CASE cl[c].at = "closing"
  <2>1. cl' = [cl EXCEPT ![c] = Idle] /\ job' = None
    BY <1>2 DEF Accept
  <2> QED
    BY <2>1 DEF Inv, Shapes, OnlyClient, ClientOk, Idle, At, Early
<1>3. CASE cl[c].at = "calling"
  <2>1. cl' = cl /\ job' = [c |-> c, off |-> 0]
    BY <1>3 DEF Accept
  <2> QED
    BY <1>3, <2>1 DEF Inv, Shapes, OnlyClient
<1> QED
  BY <1>1, <1>2, <1>3 DEF Waiting

LEMMA TakeStep ==
    ASSUME Inv, NEW c \in Client, Take(c) \/ TakeProvisioning(c)
    PROVE  Inv'
<1>1. /\ UNCHANGED <<store, pc, app_id, fs_ctx, may>> /\ pc \in {"serve", "provision"}
      /\ Waiting(c)
  BY DEF Take, TakeProvisioning
<1>2. app_id' \in AppIds /\ fs_ctx' \in Ctx \cup {None}
  BY <1>1 DEF Inv, TypeOK, AppIds
<1>3. provisioned' \in BOOLEAN /\ (provisioned => provisioned')
  BY DEF Take, TakeProvisioning, Inv, TypeOK
<1>4. CASE Accept(c) /\ (Take(c) \/ cl[c].at # "calling")
  <2>1. /\ OnlyClient(c) /\ cl'[c].at # "called"
        /\ \/ job' = None
           \/ /\ cl[c].at = "calling" /\ cl'[c].at = "calling"
              /\ job' = [c |-> c, off |-> 0]
    BY <1>1, <1>4, AcceptFields
  <2>2. OwnAnswer(c, cl'[c])
    BY <2>1 DEF OwnAnswer
  <2>3. job' # None => pc = "serve"
    BY <1>4, <2>1 DEF Take
  <2> QED
    BY <1>1, <1>2, <1>3, <2>1, <2>2, <2>3, ClientChange
<1>5. CASE \E st : cl' = Answered(c, st) /\ cl[c].at = "calling" /\ job' = job
                     /\ cl[c].req.op = "provisioning" /\ pc = "provision"
  <2>1. PICK st : cl' = Answered(c, st)
    BY <1>5
  <2>2. OnlyClient(c) /\ cl'[c].req = cl[c].req
    BY <1>5, <2>1, AnsweredFields DEF Inv
  <2>3. OwnAnswer(c, cl'[c])
    BY <1>5, <2>2 DEF OwnAnswer, Storage
  <2>4. job' = None
    BY <1>5 DEF Inv, JobOk
  <2> QED
    BY <1>1, <1>2, <1>3, <2>2, <2>3, <2>4, ClientChange
<1> QED
  BY <1>4, <1>5 DEF Take, TakeProvisioning

LEMMA InvStep == Inv /\ [Next]_vars => Inv'
<1> SUFFICES ASSUME Inv, [Next]_vars PROVE Inv'
  OBVIOUS
<1>1. CASE UNCHANGED vars
  BY <1>1
  DEF vars, Inv, TypeOK, Shapes, JobOk, MidSet, File, AssetIsCallers, GetReturnsOwn,
      OwnPart, NoAccessUnprovisioned, Waiting
<1> QED
  BY <1>1, RefuseStep, SetFirstStep, SetNextStep, GetStep, GetInfoStep, RemoveStep,
     FeatureCallStep, RestartStep, ClientSteps, TakeStep
  DEF Next, Partition, Handle

-------------------------------------------------------------------------------
(* Results *)

(* Every reachable state satisfies the inductive invariant: besides the    *)
(* properties below, a call is handled only while its client waits for it, *)
(* and between two chunks of a set the file holds exactly the data before  *)
(* the offset, in the file system that is selected.                        *)
THEOREM InvCorrect == Spec => []Inv
<1> QED
  BY InvInit, InvStep, PTL DEF Spec

(* Every client's assets are what it stored itself, chunk by chunk, and a  *)
(* get returns the requested part of them, whatever the other clients do,  *)
(* whatever reads fail and wherever power fails.                           *)
THEOREM OwnAssetsOnlyCorrect == Spec => []OwnAssetsOnly
<1>1. Inv => OwnAssetsOnly
  BY DEF Inv, OwnAssetsOnly
<1> QED
  BY <1>1, InvCorrect, PTL

(* A client without access rights gets nothing into or out of the flash:   *)
(* its id is passed on to the flash before every access made for it.       *)
THEOREM NoAccessCorrect == Spec => []NoAccessUnprovisioned
<1>1. Inv => NoAccessUnprovisioned
  BY DEF Inv
<1> QED
  BY <1>1, InvCorrect, PTL

(* A file is changed only by a call of its own client for its own uid. *)
LEMMA OtherFileKept ==
    ASSUME Inv, NEW c \in Client, NEW u \in Uid, CtxOf(c) \in Ctx,
           NEW d \in Client, NEW v \in Uid, d # c \/ v # u,
           NEW x \in Ctx, NEW file, store' = [store EXCEPT ![x][Fid(d, v)] = file]
    PROVE  File(c, u)' = File(c, u)
<1>1. Fid(c, u) # Fid(d, v) /\ Fid(c, u) \in Client \X Uid
  BY DEF Fid
<1>2. store'[CtxOf(c)][Fid(c, u)] = store[CtxOf(c)][Fid(c, u)]
  BY <1>1 DEF Inv, Shapes
<1> QED
  BY <1>2 DEF File

LEMMA WriteOnceStep ==
    ASSUME Inv, ~ReadMayFail, [Next]_vars, NEW c \in Client, NEW u \in Uid,
           CtxOf(c) \in Ctx, File(c, u) # None, ~Setting(c, u), File(c, u).once
    PROVE  File(c, u)' = File(c, u)
<1> DEFINE d == job.c
           r == cl[d].req
<1>1. CASE UNCHANGED store
  BY <1>1 DEF File
<1>2. ASSUME job # None, r.op \in {"set", "remove"}, CtxOf(d) \in Ctx, PassOn(d),
             NEW info \in InfoOutcomes(d, r.uid), ~WriteOnce(info), FlashOk,
             NEW file, store' = [store EXCEPT ![fs_ctx'][Fid(d, r.uid)] = file]
      PROVE  File(c, u)' = File(c, u)
  <2>1. d \in Client /\ r \in Request
    BY <1>2, JobFields
  <2>2. r.uid \in Uid
    BY <1>2, <2>1, RequestAssumption
  <2>3. fs_ctx' = CtxOf(d)
    BY <1>2, <2>1, PassOnFields
  <2>4. info = File(d, r.uid)
    BY <1>2 DEF InfoOutcomes
  <2>5. d # c \/ r.uid # u
    BY <1>2, <2>4 DEF WriteOnce
  <2> HIDE DEF d, r
  <2> QED
    BY <1>2, <2>1, <2>2, <2>3, <2>5, OtherFileKept
<1>3. CASE SetFirst
  <2>1. /\ job # None /\ r.op = "set" /\ CtxOf(d) \in Ctx /\ PassOn(d)
    BY <1>3 DEF SetFirst, NoCtx
  <2>2. PICK info \in InfoOutcomes(d, r.uid) :
          \/ UNCHANGED store
          \/ /\ ~WriteOnce(info) /\ FlashOk
             /\ store' = [store EXCEPT ![fs_ctx'][Fid(d, r.uid)] = Created(Chunk(r, 0), r.once)]
    BY <1>3 DEF SetFirst, Fail, WriteChunk
  <2> QED
    BY <1>1, <1>2, <2>1, <2>2
<1>4. CASE SetNext
  <2>1. /\ job # None /\ job.off > 0 /\ r.op = "set" /\ fs_ctx' = fs_ctx
    BY <1>4 DEF SetNext
  <2>2. d \in Client /\ r \in Request
    BY <2>1, JobFields
  <2>3. r.uid \in Uid
    BY <2>1, <2>2, RequestAssumption
  <2>4. fs_ctx \in Ctx
    BY <2>1 DEF Inv, JobOk, MidSet
  <2>5. d # c \/ r.uid # u
    BY <2>1 DEF Setting
  <2> DEFINE file == Continued(File(d, r.uid), job.off, Chunk(r, job.off))
             v == r.uid
  <2>6. UNCHANGED store \/ store' = [store EXCEPT ![fs_ctx][Fid(d, v)] = file]
    BY <1>4, <2>1 DEF SetNext, Fail, WriteChunk
  <2>7. v \in Uid /\ (d # c \/ v # u)
    BY <2>3, <2>5
  <2> HIDE DEF d, r, v, file
  <2> QED
    BY <1>1, <2>2, <2>4, <2>6, <2>7, OtherFileKept
<1>5. CASE Remove
  <2>1. job # None /\ r.op = "remove" /\ CtxOf(d) \in Ctx /\ PassOn(d)
    BY <1>5 DEF Remove, NoCtx
  <2>2. PICK info \in InfoOutcomes(d, r.uid) :
          \/ UNCHANGED store
          \/ /\ info # None /\ ~WriteOnce(info)
             /\ store' = [store EXCEPT ![fs_ctx'][Fid(d, r.uid)] = None]
    BY <1>5 DEF Remove, Fail
  <2>3. info # None => FlashOk
    BY <2>2 DEF InfoOutcomes
  <2> QED
    BY <1>1, <1>2, <2>1, <2>2, <2>3
<1> QED
  BY <1>1, <1>3, <1>4, <1>5
  DEF Next, vars, Partition, Handle, Boot, UnknownSignal, Refuse, Get, GetInfo,
      FeatureCall, Take, TakeProvisioning, ClientStep, Start, PowerFail

(* As long as the flash can be read, an asset created with WRITE_ONCE is   *)
(* neither replaced nor removed by any client, once its set is done.       *)
(* Without that assumption it is not so: a read that fails makes the asset *)
(* seem not to exist.                                                      *)
THEOREM WriteOnceKeptCorrect == ~ReadMayFail => (Spec => WriteOnceKept)
<1> SUFFICES ASSUME ~ReadMayFail PROVE Spec => WriteOnceKept
  OBVIOUS
<1>1. Inv /\ [Next]_vars =>
        [\A c \in Client, u \in Uid :
           CtxOf(c) \in Ctx /\ File(c, u) # None /\ ~Setting(c, u) =>
             (File(c, u).once => File(c, u)' = File(c, u))]_vars
  BY WriteOnceStep
<1> QED
  BY <1>1, InvCorrect, PTL DEF Spec, WriteOnceKept
===============================================================================
