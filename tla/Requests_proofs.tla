--------------------------- MODULE Requests_proofs ---------------------------
(*****************************************************************************)
(* Proofs about what a request passes on its way in and out, one section for *)
(* each part.                                                                *)
(*                                                                           *)
(* Spec Engine: requests that overlap neither lose a spec nor mix two        *)
(* versions of it.                                                           *)
(* API gateway: the limit holds in every window, waiting as told is enough,  *)
(* and a write is repeated only after the service said it had failed.        *)
(* LLM client: concurrent calls pass the budget by no more than what was in  *)
(* flight, and every charge is in the totals.                                *)
(* Model router: a harder task never gets a cheaper model, and failures      *)
(* only escalate.                                                            *)
(* Security Immune System: nothing with a high finding passes the gate, a    *)
(* person's triage stays, and the distance of two names counts their edits.  *)
(*                                                                           *)
(* The modules say what they compute by the least or the greatest element of *)
(* a set; LeastOf, the well-ordering of the naturals, is what replaces       *)
(* inductions over lists and counters.                                       *)
(*****************************************************************************)
EXTENDS SpecEngine, ApiGateway, LlmClient, ModelRouter, SecurityImmune,
        SequenceTheorems, FiniteSetTheorems, FunctionTheorems, WellFoundedInduction, TLAPS

-----------------------------------------------------------------------------
\* Every set of naturals has a least element.
LEMMA LeastOf ==
  ASSUME NEW S, S \subseteq Nat, S # {}
  PROVE  \E x \in S : \A y \in S : x <= y
<1> DEFINE Less == OpToRel(<, Nat)
<1>1. \A x, y \in Nat : x < y => <<x, y>> \in Less
  BY DEF OpToRel
<1>2. IsWellFoundedOn(Less, Nat)
  BY NatLessThanWellFounded
<1> HIDE DEF Less
<1>3. PICK x \in S : \A y \in S : ~ (<<y, x>> \in Less)
  BY <1>2, WFMin
<1>4. \A y \in S : ~ (y < x)
  BY <1>1, <1>3
<1> QED BY <1>4

-----------------------------------------------------------------------------
(*****************************************************************************)
(* Spec Engine                                                               *)
(*                                                                           *)
(* What a request holds across its awaits is a copy: the invariant says that *)
(* it is a version of the spec with that id, and that a clarification is only *)
(* under way for a spec that exists.                                         *)
(*****************************************************************************)

EngineSteps == {"idle", "create", "clarify", "parse", "validate", "simulate", "evaluate"}
StoredSpecs == [id : 1 .. MaxSpecs, version : 1 .. MaxSpecs, shape : Shapes]

\* The store has one spec under each id, the one with that id in it.
StoreOK ==
    /\ DOMAIN specs \subseteq 1 .. MaxSpecs
    /\ \A id \in DOMAIN specs : \E spec \in StoredSpecs : specs[id] = {spec} /\ spec.id = id

\* A clarification is only under way for a spec that exists.
WorkOK ==
    /\ work \in [SpecClients -> [step : EngineSteps, id : 0 .. MaxSpecs, spec : SUBSET StoredSpecs]]
    /\ \A client \in SpecClients : work[client].step = "clarify" => work[client].id \in DOMAIN specs

RepliesOK ==
    /\ DOMAIN replies = SpecClients
    /\ \A client \in SpecClients :
        /\ replies[client].kind = "spec" => \A spec \in replies[client].spec : spec.id \in DOMAIN specs
        /\ replies[client].kind = "review" => replies[client].concerns = replies[client].scope

EngineInv ==
    /\ StoreOK /\ WorkOK /\ RepliesOK
    /\ drafts \in 0 .. MaxSpecs /\ parses \in 0 .. MaxParses

LEMMA EngineInit == SpecInit => EngineInv
BY SpecAssumption DEF SpecInit, EngineInv, StoreOK, WorkOK, RepliesOK, NoWork, NoReply, EngineSteps

LEMMA EngineQuiet ==
  ASSUME EngineInv, UNCHANGED <<specs, drafts, parses>>, RepliesOK', WorkOK'
  PROVE  EngineInv'
BY DEF EngineInv, StoreOK

\* A new draft is a spec with the next id, or with the id its client asked about.
LEMMA DraftType ==
  ASSUME EngineInv, NEW answer \in ModelAnswers, IsSpec(answer), drafts < MaxSpecs
  PROVE  /\ Draft(answer) \in StoredSpecs /\ Draft(answer).id = drafts + 1
         /\ \A id \in 1 .. MaxSpecs : UnderItsId(id, Draft(answer)) \in StoredSpecs
                                      /\ UnderItsId(id, Draft(answer)).id = id
<1>1. answer.shape \in Shapes BY SpecAssumption DEF ModelAnswers, IsSpec
<1>2. drafts + 1 \in 1 .. MaxSpecs BY SpecAssumption DEF EngineInv
<1>3. Draft(answer) \in StoredSpecs /\ Draft(answer).id = drafts + 1
  BY <1>1, <1>2 DEF Draft, StoredSpecs
<1>4. ASSUME NEW id \in 1 .. MaxSpecs
      PROVE  UnderItsId(id, Draft(answer)) \in StoredSpecs /\ UnderItsId(id, Draft(answer)).id = id
  BY <1>1, <1>2, <1>4 DEF Draft, UnderItsId, StoredSpecs
<1> QED BY <1>3, <1>4

LEMMA BeginKeeps ==
  ASSUME EngineInv, NEW client \in SpecClients, NEW step \in EngineSteps, NEW id \in 0 .. MaxSpecs,
         NEW spec \in SUBSET StoredSpecs, Begin(client, step, id, spec),
         step = "clarify" => id \in DOMAIN specs, UNCHANGED <<specs, replies, drafts, parses>>
  PROVE  EngineInv'
<1>1. WorkOK' BY DEF EngineInv, WorkOK, Begin
<1>2. RepliesOK' BY DEF EngineInv, RepliesOK
<1> QED BY <1>1, <1>2, EngineQuiet

LEMMA ReplyKeeps ==
  ASSUME EngineInv, NEW client \in SpecClients, NEW reply, Reply(client, reply),
         reply.kind = "spec" => \A spec \in reply.spec : spec.id \in DOMAIN specs',
         reply.kind = "review" => reply.concerns = reply.scope,
         DOMAIN specs \subseteq DOMAIN specs'
  PROVE  WorkOK' /\ RepliesOK'
<1>1. WorkOK' BY SpecAssumption DEF EngineInv, WorkOK, Reply, NoWork, EngineSteps
<1>2. RepliesOK' BY DEF EngineInv, RepliesOK, Reply
<1> QED BY <1>1, <1>2

LEMMA RefuseKeeps ==
  ASSUME EngineInv, NEW client \in SpecClients, NEW status, Refuse(client, status),
         UNCHANGED <<specs, drafts, parses>>
  PROVE  EngineInv'
<1>1. RepliesOK' BY DEF EngineInv, RepliesOK, Refuse
<1>2. WorkOK' BY DEF EngineInv, WorkOK, Refuse
<1> QED BY <1>1, <1>2, EngineQuiet

LEMMA ParseReturnsKeeps ==
  ASSUME EngineInv, NEW client \in SpecClients, NEW answer \in ModelAnswers, ParseReturns(client, answer)
  PROVE  EngineInv'
<1> DEFINE clarifying == work[client].step = "clarify"
           found == IF ~IsSpec(answer) THEN {}
                    ELSE IF clarifying THEN {UnderItsId(work[client].id, Draft(answer))}
                    ELSE {Draft(answer)}
           id == IF clarifying THEN work[client].id ELSE drafts + 1
<1>1. parses' \in 0 .. MaxParses /\ drafts' \in 0 .. MaxSpecs
  BY SpecAssumption DEF ParseReturns, EngineInv
<1>2. CASE Raises(answer)
  <2> DEFINE reply == [kind |-> "refused", status |-> 500]
  <2>1. Reply(client, reply) /\ UNCHANGED specs BY <1>2 DEF ParseReturns
  <2>2. WorkOK' /\ RepliesOK' BY <2>1, ReplyKeeps
  <2> QED BY <1>1, <2>1, <2>2 DEF EngineInv, StoreOK
<1>3. CASE ~Raises(answer)
  <2> DEFINE reply == IF found = {} THEN [kind |-> "questions"]
                      ELSE [kind |-> "spec", spec |-> found, issues |-> Validate(answer.shape)]
  <2>1. specs' = StoreResult(id, found) /\ Reply(client, reply) BY <1>3 DEF ParseReturns
  <2>2. CASE ~IsSpec(answer)
    <3>1. found = {} /\ specs' = specs BY <2>1, <2>2 DEF StoreResult
    <3>2. Reply(client, [kind |-> "questions"]) BY <2>1, <3>1
    <3>3. WorkOK' /\ RepliesOK' BY <3>1, <3>2, ReplyKeeps
    <3> QED BY <1>1, <3>1, <3>3 DEF EngineInv, StoreOK
  <2>3. CASE IsSpec(answer)
    <3>1. drafts < MaxSpecs BY <2>3 DEF ParseReturns
    <3>2. id \in 1 .. MaxSpecs
      BY <3>1, SpecAssumption DEF EngineInv, WorkOK, StoreOK
    <3>3. PICK spec \in StoredSpecs : found = {spec} /\ spec.id = id
      BY <2>3, <3>1, <3>2, DraftType
    <3>4. specs' = [i \in DOMAIN specs \cup {id} |-> IF i = id THEN found ELSE specs[i]]
      BY <2>1, <3>3 DEF StoreResult
    <3>5. StoreOK' BY <3>2, <3>3, <3>4 DEF EngineInv, StoreOK
    <3>6. reply.kind = "spec" /\ reply.spec = {spec} BY <3>3
    <3>7. WorkOK' /\ RepliesOK'
      <4> HIDE DEF reply
      <4>1. DOMAIN specs \subseteq DOMAIN specs' /\ spec.id \in DOMAIN specs' BY <3>3, <3>4
      <4> QED BY <2>1, <3>6, <4>1, ReplyKeeps
    <3> QED BY <1>1, <3>5, <3>7 DEF EngineInv
  <2> QED BY <2>2, <2>3
<1> QED BY <1>2, <1>3

LEMMA ParseActivityKeeps ==
  ASSUME EngineInv, NEW client \in SpecClients, NEW answer \in ModelAnswers, ParseActivity(client, answer)
  PROVE  EngineInv'
<1>1. parses' \in 0 .. MaxParses /\ drafts' \in 0 .. MaxSpecs /\ UNCHANGED specs
  BY SpecAssumption DEF ParseActivity, EngineInv
<1>2. WorkOK' /\ RepliesOK'
  <2>1. CASE Raises(answer)
    BY <1>1, <2>1 DEF ParseActivity, EngineInv, WorkOK, RepliesOK
  <2>2. CASE ~Raises(answer) /\ IsSpec(answer)
    <3>1. Draft(answer) \in StoredSpecs BY <2>2, DraftType DEF ParseActivity
    <3>2. WorkOK' BY <1>1, <2>2, <3>1, SpecAssumption DEF ParseActivity, EngineInv, WorkOK, EngineSteps
    <3>3. RepliesOK' BY <1>1, <2>2 DEF ParseActivity, EngineInv, RepliesOK
    <3> QED BY <3>2, <3>3
  <2>3. CASE ~Raises(answer) /\ ~IsSpec(answer)
    <3>1. Reply(client, [kind |-> "questions"]) BY <2>3 DEF ParseActivity
    <3> QED BY <1>1, <3>1, ReplyKeeps
  <2> QED BY <2>1, <2>2, <2>3
<1> QED BY <1>1, <1>2 DEF EngineInv, StoreOK

LEMMA EngineStep ==
  ASSUME EngineInv, [SpecNext]_specVars
  PROVE  EngineInv'
<1>1. CASE UNCHANGED specVars
  BY <1>1 DEF specVars, EngineInv, StoreOK, WorkOK, RepliesOK
<1>2. ASSUME NEW client \in SpecClients, CreateSpec(client) \/ StartSpecWorkflow(client) PROVE EngineInv'
  <2>1. 0 \in 0 .. MaxSpecs BY SpecAssumption
  <2>2. CASE CreateSpec(client)
    BY <2>1, <2>2, BeginKeeps DEF CreateSpec, EngineSteps
  <2>3. CASE StartSpecWorkflow(client)
    BY <2>1, <2>3, BeginKeeps DEF StartSpecWorkflow, EngineSteps
  <2> QED BY <1>2, <2>2, <2>3
<1>3. ASSUME NEW client \in SpecClients, CreateEmptySpec(client) PROVE EngineInv'
  <2>1. WorkOK' /\ RepliesOK' BY <1>3, ReplyKeeps DEF CreateEmptySpec
  <2> QED BY <1>3, <2>1, EngineQuiet DEF CreateEmptySpec
<1>4. ASSUME NEW client \in SpecClients, NEW id \in 1 .. MaxSpecs, ClarifySpec(client, id) PROVE EngineInv'
  <2>1. CASE id \in DOMAIN specs
    BY <1>4, <2>1, BeginKeeps, SpecAssumption DEF ClarifySpec, EngineSteps
  <2>2. CASE id \notin DOMAIN specs
    BY <1>4, <2>2, RefuseKeeps DEF ClarifySpec
  <2> QED BY <2>1, <2>2
<1>5. ASSUME NEW client \in SpecClients, NEW id \in 1 .. MaxSpecs, GetSpec(client, id) PROVE EngineInv'
  <2>1. CASE id \in DOMAIN specs
    <3> DEFINE reply == [kind |-> "spec", spec |-> specs[id],
                         issues |-> UNION {Validate(s.shape) : s \in specs[id]}]
    <3>1. Reply(client, reply) /\ UNCHANGED <<specs, drafts, parses>> BY <1>5, <2>1 DEF GetSpec
    <3>2. reply.kind = "spec" /\ \A spec \in reply.spec : spec.id \in DOMAIN specs
      BY <2>1 DEF EngineInv, StoreOK
    <3>3. WorkOK' /\ RepliesOK'
      <4> HIDE DEF reply
      <4> QED BY <3>1, <3>2, ReplyKeeps
    <3> QED BY <3>1, <3>3, EngineQuiet
  <2>2. CASE id \notin DOMAIN specs
    BY <1>5, <2>2, RefuseKeeps DEF GetSpec
  <2> QED BY <2>1, <2>2
<1>6. ASSUME NEW client \in SpecClients, NEW id \in 1 .. MaxSpecs, ReviewSpec(client, id) PROVE EngineInv'
  <2>1. CASE id \in DOMAIN specs
    <3>1. specs[id] # {} /\ specs[id] \in SUBSET StoredSpecs BY <2>1 DEF EngineInv, StoreOK
    <3>2. Begin(client, "simulate", id, specs[id]) /\ UNCHANGED <<specs, replies, drafts, parses>>
      BY <1>6, <2>1, <3>1 DEF ReviewSpec
    <3> QED BY <3>1, <3>2, BeginKeeps, SpecAssumption DEF EngineSteps
  <2>2. CASE id \notin DOMAIN specs
    BY <1>6, <2>2, RefuseKeeps DEF ReviewSpec
  <2> QED BY <2>1, <2>2
<1>7. ASSUME NEW client \in SpecClients, ValidateActivity(client) \/ SimulateReturns(client) PROVE EngineInv'
  <2>1. WorkOK' BY <1>7 DEF EngineInv, WorkOK, ValidateActivity, SimulateReturns, EngineSteps
  <2>2. RepliesOK' BY <1>7 DEF EngineInv, RepliesOK, ValidateActivity, SimulateReturns
  <2> QED BY <1>7, <2>1, <2>2, EngineQuiet DEF ValidateActivity, SimulateReturns
<1>8. ASSUME NEW client \in SpecClients, EvaluateReturns(client) PROVE EngineInv'
  <2>1. WorkOK' /\ RepliesOK' BY <1>8, ReplyKeeps DEF EvaluateReturns, Evaluated
  <2> QED BY <1>8, <2>1, EngineQuiet DEF EvaluateReturns
<1> QED
  BY <1>1, <1>2, <1>3, <1>4, <1>5, <1>6, <1>7, <1>8, ParseReturnsKeeps, ParseActivityKeeps DEF SpecNext

\* Requests that overlap while the model answers neither lose a spec nor mix two versions of it
\* in a review (the routes of the Spec Engine and their store), for any number of clients and
\* of specs.
THEOREM SpecsWhole == EngineSpec => []SpecsStayWhole
<1>1. EngineInv => SpecsStayWhole
  <2> SUFFICES ASSUME EngineInv PROVE SpecsStayWhole
    OBVIOUS
  <2>1. ASSUME NEW id \in DOMAIN specs
        PROVE  /\ specs[id] \subseteq StoredSpecs /\ Cardinality(specs[id]) <= 1
               /\ \E spec \in specs[id] : spec.id = id
    <3>1. PICK spec \in StoredSpecs : specs[id] = {spec} /\ spec.id = id BY DEF EngineInv, StoreOK
    <3>2. Cardinality({spec}) = 1 BY FS_Singleton
    <3> QED BY <3>1, <3>2
  <2>2. SpecTypeOK
    BY <2>1 DEF SpecTypeOK, EngineInv, StoreOK, WorkOK, StoredSpecs, EngineSteps
  <2>3. SpecsStayUnderTheirId BY <2>1 DEF SpecsStayUnderTheirId, EngineInv, RepliesOK
  <2>4. ReviewsAreConsistent BY DEF ReviewsAreConsistent, EngineInv, RepliesOK
  <2> QED BY <2>2, <2>3, <2>4 DEF SpecsStayWhole
<1>2. EngineInv /\ [SpecNext]_specVars => EngineInv' BY EngineStep
<1> QED BY <1>1, <1>2, EngineInit, PTL DEF EngineSpec

-----------------------------------------------------------------------------
(*****************************************************************************)
(* API gateway                                                               *)
(*                                                                           *)
(* The list of a client is the end of what was ever admitted (WindowOK), so  *)
(* dropping old entries loses nothing that counts; an admitted request is a  *)
(* window away from the one that lies the limit before it, and so no window  *)
(* holds more.                                                               *)
(*****************************************************************************)

\* The entries from position k + 1 on.
LEMMA EntriesOfASuffix ==
  ASSUME NEW list, NEW m \in Nat, NEW k \in 0 .. m
  PROVE  /\ EntriesAt(list, k + 1 .. m) = [i \in 1 .. m - k |-> list[i + k]]
<1> DEFINE positions == k + 1 .. m
<1>1. Cardinality(positions) = m - k
  <2>1. k + 1 \in Int /\ m \in Int OBVIOUS
  <2>2. Cardinality(k + 1 .. m) = IF k + 1 > m THEN 0 ELSE m - (k + 1) + 1 BY <2>1, FS_Interval
  <2> QED BY <2>2
<1>2. ASSUME NEW j \in positions PROVE Cardinality({x \in positions : x <= j}) = j - k
  <2>0. \A x : (x \in positions /\ x <= j) <=> x \in k + 1 .. j OBVIOUS
  <2>1. {x \in positions : x <= j} = k + 1 .. j BY <2>0
  <2>2. Cardinality(k + 1 .. j) = j - k BY FS_Interval
  <2> QED BY <2>1, <2>2
<1>3. ASSUME NEW i \in 1 .. m - k
      PROVE  (CHOOSE j \in positions : Cardinality({x \in positions : x <= j}) = i) = i + k
  <2>1. i + k \in positions /\ \A j \in positions : j - k = i <=> j = i + k OBVIOUS
  <2>2. \A j \in positions : Cardinality({x \in positions : x <= j}) = i <=> j = i + k BY <1>2, <2>1
  <2> HIDE DEF positions
  <2> QED BY <2>1, <2>2
<1> HIDE DEF positions
<1>4. EntriesAt(list, positions) = [i \in 1 .. m - k |-> list[i + k]]
  <2>1. EntriesAt(list, positions) =
          [i \in 1 .. m - k |-> list[CHOOSE j \in positions : Cardinality({x \in positions : x <= j}) = i]]
    BY <1>1 DEF EntriesAt
  <2> QED BY <2>1, <1>3
<1> QED BY <1>4 DEF positions

SortedTimes(list) == \A i, j \in 1 .. Len(list) : i <= j => list[i] <= list[j]

\* What is left of the admissions once those that no longer count are dropped: the last ones.
WindowOK(key, dropped) ==
    /\ Len(windows[key]) = Len(admitted[key]) - dropped
    /\ \A i \in 1 .. Len(windows[key]) : windows[key][i] = admitted[key][i + dropped]
    /\ \A i \in 1 .. dropped : admitted[key][i] + Window <= now

AdmissionsOK(key) ==
    /\ windows[key] \in Seq(Nat) /\ admitted[key] \in Seq(Nat)
    /\ Len(windows[key]) <= RateLimit
    /\ SortedTimes(admitted[key])
    /\ \A i \in 1 .. Len(admitted[key]) : admitted[key][i] <= now
    /\ \E dropped \in 0 .. Len(admitted[key]) : WindowOK(key, dropped)
    /\ \A i \in 1 .. Len(admitted[key]) - RateLimit :
          admitted[key][i] + Window <= admitted[key][i + RateLimit]

PromiseOK(key) ==
    /\ promised[key] \in {Nobody} \cup Nat
    /\ promised[key] # Nobody =>
          Len(windows[key]) > 0 /\ windows[key][1] + Window <= promised[key]

LimitInv ==
    /\ now \in 0 .. MaxNow
    /\ DOMAIN windows = Keys /\ DOMAIN admitted = Keys /\ DOMAIN promised = Keys
    /\ \A key \in Keys : AdmissionsOK(key) /\ PromiseOK(key)

LEMMA WindowSorted ==
  ASSUME LimitInv, NEW key \in Keys
  PROVE  SortedTimes(windows[key])
<1>1. PICK dropped \in 0 .. Len(admitted[key]) : WindowOK(key, dropped)
  BY DEF LimitInv, AdmissionsOK
<1>2. admitted[key] \in Seq(Nat) /\ SortedTimes(admitted[key]) /\ windows[key] \in Seq(Nat)
  BY DEF LimitInv, AdmissionsOK
<1>3. Len(admitted[key]) \in Nat BY <1>2
<1>4. ASSUME NEW i \in 1 .. Len(windows[key]), NEW j \in 1 .. Len(windows[key]), i <= j
      PROVE  windows[key][i] <= windows[key][j]
  <2>1. i + dropped \in 1 .. Len(admitted[key]) /\ j + dropped \in 1 .. Len(admitted[key])
        /\ i + dropped <= j + dropped
    BY <1>1, <1>3, <1>4 DEF WindowOK
  <2>2. windows[key][i] = admitted[key][i + dropped] /\ windows[key][j] = admitted[key][j + dropped]
    BY <1>1 DEF WindowOK
  <2>3. admitted[key][i + dropped] <= admitted[key][j + dropped] BY <2>1, <1>2 DEF SortedTimes
  <2> QED BY <2>2, <2>3
<1> QED BY <1>4 DEF SortedTimes

\* Recent drops a prefix of the window: the timestamps that are too old.
LEMMA RecentIsSuffix ==
  ASSUME LimitInv, NEW key \in Keys
  PROVE  \E k \in 0 .. Len(windows[key]) :
            /\ Recent(key, now) = [i \in 1 .. Len(windows[key]) - k |-> windows[key][i + k]]
            /\ \A i \in 1 .. k : windows[key][i] + Window <= now
            /\ \A i \in k + 1 .. Len(windows[key]) : windows[key][i] + Window > now
<1> DEFINE list == windows[key]
           m == Len(list)
           positions == {i \in DOMAIN list : list[i] > now - Window}
<1>1. list \in Seq(Nat) /\ m \in Nat /\ DOMAIN list = 1 .. m /\ now \in Int /\ Window \in Nat
  BY GatewayAssumption DEF LimitInv, AdmissionsOK
<1>2. SortedTimes(list) BY WindowSorted
<1>3. \A i \in 1 .. m : list[i] \in Int BY <1>1
<1>4. PICK k \in 0 .. m : positions = k + 1 .. m
  <2>1. CASE positions = {}
    <3>1. m \in 0 .. m BY <1>1
    <3>2. m + 1 .. m = {} BY <1>1
    <3> QED BY <2>1, <3>1, <3>2
  <2>2. CASE positions # {}
    <3>1. PICK x \in positions : \A y \in positions : x <= y
      <4> positions \subseteq Nat BY <1>1
      <4> HIDE DEF positions
      <4> QED BY <2>2, LeastOf
    <3>2. x \in 1 .. m /\ list[x] > now - Window BY <1>1
    <3>3. \A i \in x .. m : list[i] > now - Window
      BY <3>2, <1>1, <1>2, <1>3 DEF SortedTimes
    <3>4. positions = x .. m
      <4>1. \A y : y \in positions => y \in x .. m BY <3>1, <1>1
      <4>2. \A y : y \in x .. m => y \in positions BY <3>2, <3>3, <1>1
      <4> HIDE DEF positions
      <4> QED BY <4>1, <4>2
    <3>5. x - 1 \in 0 .. m /\ (x - 1) + 1 = x BY <3>2
    <3> HIDE DEF positions
    <3>6. positions = (x - 1) + 1 .. m BY <3>4, <3>5
    <3> QED BY <3>5, <3>6
  <2> QED BY <2>1, <2>2
<1>5. Recent(key, now) = [i \in 1 .. m - k |-> list[i + k]]
  <2>1. Recent(key, now) = EntriesAt(list, positions) BY DEF Recent
  <2>2. EntriesAt(list, k + 1 .. m) = [i \in 1 .. m - k |-> list[i + k]]
    <3> HIDE DEF list, m
    <3> QED BY <1>1, EntriesOfASuffix
  <2> HIDE DEF positions, list, m
  <2> QED BY <2>1, <2>2, <1>4
<1>6. \A i \in 1 .. k : ~ (list[i] > now - Window)
  <2> SUFFICES ASSUME NEW i \in 1 .. k, list[i] > now - Window PROVE FALSE OBVIOUS
  <2>1. i \in positions BY <1>1
  <2> QED BY <2>1, <1>4
<1>7. \A i \in k + 1 .. m : list[i] > now - Window
  BY <1>4
<1>8. \A i \in 1 .. k : list[i] + Window <= now BY <1>1, <1>3, <1>6
<1>9. \A i \in k + 1 .. m : list[i] + Window > now BY <1>1, <1>3, <1>7
<1> QED BY <1>5, <1>8, <1>9

-----------------------------------------------------------------------------
\* Nothing but the rate limit changes what is counted.
LEMMA LimitKeptOverTime ==
  ASSUME LimitInv, now' \in now .. MaxNow, UNCHANGED <<windows, admitted, promised>>
  PROVE  LimitInv'
<1>1. now' \in 0 .. MaxNow /\ now <= now' /\ now \in Nat BY DEF LimitInv
<1>2. ASSUME NEW key \in Keys PROVE AdmissionsOK(key)' /\ PromiseOK(key)'
  <2>1. AdmissionsOK(key) /\ PromiseOK(key) BY DEF LimitInv
  <2>2. PromiseOK(key)' BY <2>1 DEF PromiseOK
  <2>3. PICK dropped \in 0 .. Len(admitted[key]) : WindowOK(key, dropped) BY <2>1 DEF AdmissionsOK
  <2>4. Len(admitted[key]) \in Nat /\ \A i \in 1 .. Len(admitted[key]) : admitted[key][i] \in Nat
    BY <2>1 DEF AdmissionsOK
  <2>5. \A i \in 1 .. dropped : i \in 1 .. Len(admitted[key]) BY <2>4
  <2>6. \A i \in 1 .. dropped : admitted[key][i] + Window <= now'
    BY <2>3, <2>4, <2>5, <1>1, GatewayAssumption DEF WindowOK
  <2>7. WindowOK(key, dropped)' BY <2>3, <2>6 DEF WindowOK
  <2>8. \A i \in 1 .. Len(admitted[key]) : admitted[key][i] <= now'
    BY <2>1, <2>4, <1>1 DEF AdmissionsOK
  <2>9. AdmissionsOK(key)'
    BY <2>1, <2>3, <2>7, <2>8 DEF AdmissionsOK, SortedTimes
  <2> QED BY <2>2, <2>9
<1> QED BY <1>1, <1>2 DEF LimitInv

LEMMA OneKeyChanges ==
  ASSUME LimitInv, NEW key \in Keys, UNCHANGED now,
         DOMAIN windows' = Keys, DOMAIN admitted' = Keys, DOMAIN promised' = Keys,
         \A other \in Keys \ {key} : windows'[other] = windows[other]
            /\ admitted'[other] = admitted[other] /\ promised'[other] = promised[other],
         AdmissionsOK(key)', PromiseOK(key)'
  PROVE  LimitInv'
<1>1. ASSUME NEW other \in Keys \ {key} PROVE AdmissionsOK(other)' /\ PromiseOK(other)'
  <2>1. AdmissionsOK(other) /\ PromiseOK(other) BY DEF LimitInv
  <2>2. windows'[other] = windows[other] /\ admitted'[other] = admitted[other]
        /\ promised'[other] = promised[other]
    OBVIOUS
  <2>3. PromiseOK(other)' BY <2>1, <2>2 DEF PromiseOK
  <2>4. PICK dropped \in 0 .. Len(admitted[other]) : WindowOK(other, dropped) BY <2>1 DEF AdmissionsOK
  <2>5. WindowOK(other, dropped)' BY <2>2, <2>4 DEF WindowOK
  <2>6. AdmissionsOK(other)' BY <2>1, <2>2, <2>5 DEF AdmissionsOK, SortedTimes
  <2> QED BY <2>3, <2>6
<1> QED BY <1>1 DEF LimitInv

\* A window that drops a prefix of itself is still the end of what was admitted.
LEMMA WindowShrinks ==
  ASSUME LimitInv, NEW key \in Keys, NEW k \in 0 .. Len(windows[key]),
         \A i \in 1 .. k : windows[key][i] + Window <= now
  PROVE  \E dropped \in k .. Len(admitted[key]) :
            /\ WindowOK(key, dropped - k)
            /\ Len(windows[key]) - k = Len(admitted[key]) - dropped
            /\ \A i \in 1 .. Len(windows[key]) - k : windows[key][i + k] = admitted[key][i + dropped]
            /\ \A i \in 1 .. dropped : admitted[key][i] + Window <= now
<1>1. AdmissionsOK(key) BY DEF LimitInv
<1>2. PICK before \in 0 .. Len(admitted[key]) : WindowOK(key, before) BY <1>1 DEF AdmissionsOK
<1>3. Len(windows[key]) \in Nat /\ Len(admitted[key]) \in Nat
      /\ Len(windows[key]) = Len(admitted[key]) - before
  <2>1. windows[key] \in Seq(Nat) /\ admitted[key] \in Seq(Nat) BY <1>1 DEF AdmissionsOK
  <2>2. Len(windows[key]) \in Nat /\ Len(admitted[key]) \in Nat BY <2>1
  <2>3. Len(windows[key]) = Len(admitted[key]) - before BY <1>2 DEF WindowOK
  <2> QED BY <2>2, <2>3
<1> DEFINE dropped == before + k
<1>4. dropped \in k .. Len(admitted[key]) /\ dropped - k = before
      /\ Len(windows[key]) - k = Len(admitted[key]) - dropped
  BY <1>3
<1>5. ASSUME NEW i \in 1 .. Len(windows[key]) - k
      PROVE  windows[key][i + k] = admitted[key][i + dropped]
  <2>1. i + k \in 1 .. Len(windows[key]) /\ (i + k) + before = i + dropped BY <1>3
  <2> HIDE DEF dropped
  <2> QED BY <2>1, <1>2 DEF WindowOK
<1>6. ASSUME NEW i \in 1 .. dropped PROVE admitted[key][i] + Window <= now
  <2>1. CASE i <= before BY <2>1, <1>2 DEF WindowOK
  <2>2. CASE i > before
    <3>1. i - before \in 1 .. k /\ i - before \in 1 .. Len(windows[key]) /\ (i - before) + before = i
      BY <2>2, <1>3
    <3>2. windows[key][i - before] = admitted[key][i] BY <3>1, <1>2 DEF WindowOK
    <3> QED BY <3>1, <3>2
  <2> QED BY <2>1, <2>2
<1> HIDE DEF dropped
<1> QED BY <1>2, <1>4, <1>5, <1>6

\* A request that is refused: Retry-After lies behind the end of its window.
LEMMA RefusalKeeps ==
  ASSUME LimitInv, NEW key \in Keys, OverLimit(key), UNCHANGED <<now, admitted>>,
         windows' = [windows EXCEPT ![key] = Recent(key, now)],
         promised' = [promised EXCEPT ![key] = now + RetryAfter(key)]
  PROVE  LimitInv'
<1>1. AdmissionsOK(key) /\ DOMAIN windows = Keys /\ DOMAIN promised = Keys /\ now \in Nat
  BY DEF LimitInv
<1>2. PICK k \in 0 .. Len(windows[key]) :
          /\ Recent(key, now) = [i \in 1 .. Len(windows[key]) - k |-> windows[key][i + k]]
          /\ \A i \in 1 .. k : windows[key][i] + Window <= now
          /\ \A i \in k + 1 .. Len(windows[key]) : windows[key][i] + Window > now
  BY RecentIsSuffix
<1>3. PICK dropped \in k .. Len(admitted[key]) :
            /\ WindowOK(key, dropped - k)
            /\ Len(windows[key]) - k = Len(admitted[key]) - dropped
            /\ \A i \in 1 .. Len(windows[key]) - k : windows[key][i + k] = admitted[key][i + dropped]
            /\ \A i \in 1 .. dropped : admitted[key][i] + Window <= now
  BY <1>2, WindowShrinks
<1>4. Len(windows[key]) \in Nat /\ Len(admitted[key]) \in Nat
      /\ \A i \in 1 .. Len(windows[key]) : windows[key][i] \in Nat
  BY <1>1 DEF AdmissionsOK
<1> DEFINE left == Len(windows[key]) - k
<1>5. left \in Nat /\ left <= Len(windows[key]) /\ \A i \in 1 .. left : i + k \in 1 .. Len(windows[key])
  BY <1>4
<1>6. windows'[key] = [i \in 1 .. left |-> windows[key][i + k]] BY <1>1, <1>2
<1> HIDE DEF left
<1>7. /\ windows'[key] \in Seq(Nat) /\ Len(windows'[key]) = left
      /\ \A i \in 1 .. left : windows'[key][i] = windows[key][i + k]
  <2>1. \A i \in 1 .. left : windows[key][i + k] \in Nat BY <1>4, <1>5
  <2>2. windows'[key] \in [1 .. left -> Nat] BY <1>6, <2>1
  <2>3. windows'[key] \in Seq(Nat) /\ Len(windows'[key]) = left BY <2>2, <1>5
  <2> QED BY <1>6, <2>3
<1>8. WindowOK(key, dropped)'
  BY <1>3, <1>7, <1>6 DEF WindowOK, left
<1>9. AdmissionsOK(key)'
  <2>1. Len(windows'[key]) <= RateLimit
    BY <1>1, <1>4, <1>5, <1>7, GatewayAssumption DEF AdmissionsOK
  <2>2. dropped \in 0 .. Len(admitted[key]) BY <1>4
  <2> QED BY <1>1, <1>7, <1>8, <2>1, <2>2 DEF AdmissionsOK, SortedTimes
<1>10. PromiseOK(key)'
  <2>1. Len(Recent(key, now)) = left BY <1>2, <1>5 DEF left
  <2>2. left > 0 BY <2>1, <1>5, GatewayAssumption DEF OverLimit
  <2>3. k + 1 \in k + 1 .. Len(windows[key]) /\ k + 1 \in 1 .. Len(windows[key])
    BY <2>2, <1>4 DEF left
  <2>4. windows[key][k + 1] \in Nat /\ windows[key][k + 1] + Window > now
    BY <2>3, <1>2, <1>4
  <2>5. Recent(key, now)[1] = windows[key][k + 1] /\ windows'[key][1] = windows[key][k + 1]
    BY <2>2, <1>2, <1>5, <1>7, <2>3 DEF left
  <2>6. promised'[key] = now + 2 * ((Window - (now - windows[key][k + 1])) \div 2 + 1)
    BY <2>5, <1>1 DEF RetryAfter
  <2>7. promised'[key] \in Nat /\ windows[key][k + 1] + Window <= promised'[key]
    <3> DEFINE first == windows[key][k + 1]
    <3>1. first \in Nat /\ first + Window > now BY <2>4
    <3>2. promised'[key] = now + 2 * ((Window - (now - first)) \div 2 + 1) BY <2>6
    <3> HIDE DEF first
    <3>3. promised'[key] \in Nat /\ first + Window <= promised'[key]
      BY <3>1, <3>2, <1>1, GatewayAssumption
    <3> QED BY <3>3 DEF first
  <2> QED BY <2>2, <2>5, <2>7, <1>7 DEF PromiseOK
<1> QED BY <1>1, <1>9, <1>10, OneKeyChanges DEF LimitInv

LEMMA AppendedTimes ==
  ASSUME NEW list \in Seq(Nat), NEW time \in Nat
  PROVE  /\ Append(list, time) \in Seq(Nat) /\ Len(Append(list, time)) = Len(list) + 1
         /\ Append(list, time)[Len(list) + 1] = time
         /\ \A i \in 1 .. Len(list) : Append(list, time)[i] = list[i]
OBVIOUS

\* A request that is let through: the one RateLimit before it no longer counts.
LEMMA AdmissionKeeps ==
  ASSUME LimitInv, NEW key \in Keys, ~OverLimit(key), UNCHANGED now,
         windows' = [windows EXCEPT ![key] = Append(Recent(key, now), now)],
         admitted' = [admitted EXCEPT ![key] = Append(@, now)],
         promised' = [promised EXCEPT ![key] = Nobody]
  PROVE  LimitInv'
<1>1. /\ AdmissionsOK(key) /\ DOMAIN windows = Keys /\ DOMAIN promised = Keys
      /\ DOMAIN admitted = Keys /\ now \in Nat
  BY DEF LimitInv
<1>2. PICK k \in 0 .. Len(windows[key]) :
          /\ Recent(key, now) = [i \in 1 .. Len(windows[key]) - k |-> windows[key][i + k]]
          /\ \A i \in 1 .. k : windows[key][i] + Window <= now
  BY RecentIsSuffix
<1>3. PICK dropped \in k .. Len(admitted[key]) :
            /\ Len(windows[key]) - k = Len(admitted[key]) - dropped
            /\ \A i \in 1 .. Len(windows[key]) - k : windows[key][i + k] = admitted[key][i + dropped]
            /\ \A i \in 1 .. dropped : admitted[key][i] + Window <= now
  BY <1>2, WindowShrinks
<1> DEFINE left == Len(windows[key]) - k
           old == admitted[key]
           n == Len(old)
<1>4. old \in Seq(Nat) /\ n \in Nat /\ (\A i \in 1 .. n : old[i] \in Nat /\ old[i] <= now)
      /\ SortedTimes(old) /\ Len(windows[key]) \in Nat
      /\ (\A i \in 1 .. n - RateLimit : old[i] + Window <= old[i + RateLimit])
  BY <1>1 DEF AdmissionsOK
<1>5. left \in Nat /\ dropped \in 0 .. n /\ left = n - dropped
  BY <1>3, <1>4
<1>6. Recent(key, now) \in Seq(Nat) /\ Len(Recent(key, now)) = left
      /\ \A i \in 1 .. left : Recent(key, now)[i] = old[i + dropped]
  <2>1. Recent(key, now) = [i \in 1 .. left |-> windows[key][i + k]] BY <1>2
  <2>2. \A i \in 1 .. left : i + dropped \in 1 .. n BY <1>5
  <2>3. \A i \in 1 .. left : windows[key][i + k] = old[i + dropped] /\ old[i + dropped] \in Nat
    BY <1>3, <1>4, <2>2
  <2> HIDE DEF left, old, n
  <2>4. Recent(key, now) \in [1 .. left -> Nat] BY <2>1, <2>3
  <2>5. Recent(key, now) \in Seq(Nat) /\ Len(Recent(key, now)) = left BY <2>4, <1>5
  <2> QED BY <2>1, <2>3, <2>5
<1>7. windows'[key] = Append(Recent(key, now), now) /\ admitted'[key] = Append(old, now)
      /\ promised'[key] = Nobody
  BY <1>1
<1> HIDE DEF left, old, n
<1>n. n \in Nat /\ left \in Nat /\ dropped \in Nat /\ dropped <= n /\ left + dropped = n
      /\ RateLimit \in Nat /\ RateLimit >= 1 /\ now \in Nat
  BY <1>1, <1>4, <1>5, GatewayAssumption
<1>o. old \in Seq(Nat) /\ Len(old) = n BY <1>4 DEF n
<1>8. /\ windows'[key] \in Seq(Nat) /\ Len(windows'[key]) = left + 1
      /\ windows'[key][left + 1] = now
      /\ \A i \in 1 .. left : windows'[key][i] = old[i + dropped]
  BY <1>1, <1>5, <1>6, <1>7
<1>9. /\ admitted'[key] \in Seq(Nat) /\ Len(admitted'[key]) = n + 1
      /\ admitted'[key][n + 1] = now
      /\ \A i \in 1 .. n : admitted'[key][i] = old[i]
  <2>1. Append(old, now) \in Seq(Nat) /\ Len(Append(old, now)) = n + 1
        /\ Append(old, now)[n + 1] = now /\ \A i \in 1 .. n : Append(old, now)[i] = old[i]
    BY <1>n, <1>o, AppendedTimes
  <2> QED BY <2>1, <1>7
<1>10. WindowOK(key, dropped)'
  <2>1. Len(windows'[key]) = Len(admitted'[key]) - dropped BY <1>5, <1>8, <1>9, <1>4
  <2>2. ASSUME NEW i \in 1 .. left + 1 PROVE windows'[key][i] = admitted'[key][i + dropped]
    <3>1. CASE i = left + 1
      <4>1. i + dropped = n + 1 BY <3>1, <1>5, <1>4
      <4> QED BY <4>1, <3>1, <1>8, <1>9
    <3>2. CASE i \in 1 .. left
      <4>1. i + dropped \in 1 .. n BY <3>2, <1>5, <1>4
      <4> QED BY <4>1, <3>2, <1>8, <1>9
    <3>3. i = left + 1 \/ i \in 1 .. left BY <1>n
    <3> QED BY <3>1, <3>2, <3>3
  <2>3. ASSUME NEW i \in 1 .. dropped PROVE admitted'[key][i] + Window <= now
    <3>1. i \in 1 .. n BY <1>5, <1>4
    <3> QED BY <3>1, <1>9, <1>3 DEF old
  <2> QED BY <2>1, <2>2, <2>3, <1>8 DEF WindowOK
<1>11. SortedTimes(admitted'[key]) /\ \A i \in 1 .. n + 1 : admitted'[key][i] <= now
  <2>1. \A i \in 1 .. n + 1 : i = n + 1 \/ i \in 1 .. n BY <1>n
  <2>2. \A i \in 1 .. n : old[i] \in Nat /\ old[i] <= now BY <1>4
  <2>3. ASSUME NEW i \in 1 .. n + 1 PROVE admitted'[key][i] <= now
    <3>1. CASE i = n + 1 BY <3>1, <1>9, <1>n
    <3>2. CASE i \in 1 .. n BY <3>2, <2>2, <1>9
    <3> QED BY <3>1, <3>2, <2>1
  <2>4. ASSUME NEW i \in 1 .. n + 1, NEW j \in 1 .. n + 1, i <= j
        PROVE  admitted'[key][i] <= admitted'[key][j]
    <3>1. CASE j = n + 1 BY <3>1, <2>3, <1>9
    <3>2. CASE j \in 1 .. n
      <4>1. i \in 1 .. n BY <3>2, <2>4, <1>n
      <4>2. old[i] <= old[j] BY <4>1, <3>2, <2>4, <1>4, <1>o DEF SortedTimes
      <4> QED BY <4>1, <4>2, <3>2, <1>9
    <3> QED BY <3>1, <3>2, <2>1
  <2> QED BY <2>3, <2>4, <1>9 DEF SortedTimes
<1>12. left < RateLimit
  BY <1>5, <1>6, GatewayAssumption DEF OverLimit
<1>13. ASSUME NEW i \in 1 .. n + 1 - RateLimit
       PROVE  admitted'[key][i] + Window <= admitted'[key][i + RateLimit]
  <2>1. i \in 1 .. n /\ admitted'[key][i] = old[i] BY <1>4, <1>9, GatewayAssumption
  <2>2. CASE i = n + 1 - RateLimit
    <3>1. i + RateLimit = n + 1 /\ i \in 1 .. dropped BY <2>2, <1>n, <1>12
    <3>2. old[i] + Window <= now BY <3>1, <1>3 DEF old
    <3> QED BY <3>1, <3>2, <2>1, <1>9
  <2>3. CASE i \in 1 .. n - RateLimit
    <3>1. i + RateLimit \in 1 .. n BY <2>3, <1>n
    <3>2. old[i] + Window <= old[i + RateLimit] BY <2>3, <1>4
    <3> QED BY <3>1, <3>2, <2>1, <1>9
  <2>4. i = n + 1 - RateLimit \/ i \in 1 .. n - RateLimit BY <1>n
  <2> QED BY <2>2, <2>3, <2>4
<1>14. AdmissionsOK(key)'
  <2>1. Len(windows'[key]) <= RateLimit BY <1>8, <1>12, <1>5, GatewayAssumption
  <2>2. dropped \in 0 .. Len(admitted'[key]) BY <1>5, <1>9, <1>4
  <2>3. \A i \in 1 .. Len(admitted'[key]) - RateLimit :
          admitted'[key][i] + Window <= admitted'[key][i + RateLimit]
    <3>1. Len(admitted'[key]) = n + 1 BY <1>9
    <3>2. Len(admitted'[key]) - RateLimit = n + 1 - RateLimit BY <3>1, <1>n
    <3>3. 1 .. Len(admitted'[key]) - RateLimit = 1 .. n + 1 - RateLimit BY <3>2
    <3> QED BY <3>3, <1>13
  <2>4. \A i \in 1 .. Len(admitted'[key]) : admitted'[key][i] <= now' BY <1>11, <1>9
  <2> QED BY <1>8, <1>9, <1>10, <1>11, <2>1, <2>2, <2>3, <2>4 DEF AdmissionsOK
<1>15. PromiseOK(key)' BY <1>7 DEF PromiseOK
<1> QED BY <1>1, <1>14, <1>15, OneKeyChanges DEF LimitInv

-----------------------------------------------------------------------------
Statuses == {0, 200, 401, 404, 413, 429, 500, 502}
BusySlots == [phase : {"call", "backoff"}, path : {"read", "write", "health"},
              backend : 1 .. Len(Backends), attempt : 1 .. MaxTries, overall : {"healthy", "degraded"}]

IdleOK(slot) ==
    /\ slots[slot].phase = "idle" /\ slots[slot].status \in Statuses
    /\ applied[slot] <= 1 + errors[slot] /\ applied[slot] <= MaxTries

\* Every attempt before this one that carried the write out was answered with 5xx.
BusyOK(slot) ==
    /\ slots[slot] \in BusySlots
    /\ applied[slot] <= errors[slot]
    /\ slots[slot].path # "write" => applied[slot] = 0
    /\ slots[slot].path = "write" =>
          errors[slot] <= IF slots[slot].phase = "call" THEN slots[slot].attempt - 1 ELSE slots[slot].attempt
    /\ slots[slot].phase = "backoff" => slots[slot].attempt < MaxTries

SlotInv ==
    /\ DOMAIN slots = Slots /\ applied \in [Slots -> Nat] /\ errors \in [Slots -> Nat]
    /\ \A slot \in Slots : IdleOK(slot) \/ BusyOK(slot)

LEMMA OneSlotChanges ==
  ASSUME SlotInv, NEW slot \in Slots, DOMAIN slots' = Slots,
         applied' \in [Slots -> Nat], errors' \in [Slots -> Nat],
         \A other \in Slots \ {slot} : slots'[other] = slots[other]
             /\ applied'[other] = applied[other] /\ errors'[other] = errors[other],
         IdleOK(slot)' \/ BusyOK(slot)'
  PROVE  SlotInv'
<1>1. ASSUME NEW other \in Slots \ {slot} PROVE IdleOK(other)' \/ BusyOK(other)'
  <2>1. IdleOK(other) \/ BusyOK(other) BY DEF SlotInv
  <2>2. slots'[other] = slots[other] /\ applied'[other] = applied[other] /\ errors'[other] = errors[other]
    OBVIOUS
  <2>3. IdleOK(other) => IdleOK(other)' BY <2>2 DEF IdleOK
  <2>4. BusyOK(other) => BusyOK(other)' BY <2>2 DEF BusyOK
  <2> QED BY <2>1, <2>3, <2>4
<1> QED BY <1>1 DEF SlotInv

LEMMA SlotTakesRequest ==
  ASSUME SlotInv, NEW slot \in Slots, NEW q \in GatewayRequests,
         slots' = [slots EXCEPT ![slot] = Dispatch(q)]
            \/ slots' = [slots EXCEPT ![slot] = [phase |-> "idle", status |-> 429]],
         applied' = [applied EXCEPT ![slot] = 0], errors' = [errors EXCEPT ![slot] = 0]
  PROVE  SlotInv'
<1>1. DOMAIN slots' = Slots /\ applied' \in [Slots -> Nat] /\ errors' \in [Slots -> Nat]
      /\ applied'[slot] = 0 /\ errors'[slot] = 0
  BY DEF SlotInv
<1>2. \A other \in Slots \ {slot} : slots'[other] = slots[other]
         /\ applied'[other] = applied[other] /\ errors'[other] = errors[other]
  BY DEF SlotInv
<1>3. CASE slots'[slot] = [phase |-> "idle", status |-> 429]
  <2>1. IdleOK(slot)' BY <1>1, <1>3 DEF IdleOK, Statuses, MaxTries
  <2> QED BY <1>1, <1>2, <2>1, OneSlotChanges
<1>4. CASE slots'[slot] = Dispatch(q)
  <2>1. CASE q.path # "health" /\ ~q.authorised
    <3>1. IdleOK(slot)' BY <1>1, <1>4, <2>1 DEF IdleOK, Dispatch, Statuses, MaxTries
    <3> QED BY <1>1, <1>2, <3>1, OneSlotChanges
  <2>2. CASE ~(q.path # "health" /\ ~q.authorised) /\ q.large
    <3>1. IdleOK(slot)' BY <1>1, <1>4, <2>2 DEF IdleOK, Dispatch, Statuses, MaxTries
    <3> QED BY <1>1, <1>2, <3>1, OneSlotChanges
  <2>3. CASE ~(q.path # "health" /\ ~q.authorised) /\ ~q.large
    <3>1. slots'[slot] = [phase |-> "call", path |-> q.path, backend |-> 1, attempt |-> 1,
                          overall |-> "healthy"]
      BY <1>4, <2>3 DEF Dispatch
    <3>2. slots'[slot] \in BusySlots
      BY <3>1, GatewayAssumption DEF BusySlots, GatewayRequests, MaxTries
    <3>3. BusyOK(slot)' BY <1>1, <3>1, <3>2 DEF BusyOK
    <3> QED BY <1>1, <1>2, <3>3, OneSlotChanges
  <2> QED BY <2>1, <2>2, <2>3
<1> QED BY <1>3, <1>4 DEF SlotInv

LEMMA AttemptKeeps ==
  ASSUME SlotInv, NEW slot \in Slots, NEW outcome \in AttemptOutcomes, NEW done \in MayBeDone(outcome),
         Attempt(slot, outcome, done)
  PROVE  SlotInv'
<1> DEFINE r == slots[slot]
<1>1. BusyOK(slot) /\ r.phase = "call" /\ applied[slot] \in Nat /\ errors[slot] \in Nat
  BY DEF SlotInv, IdleOK, Attempt
<1>2. r \in BusySlots BY <1>1 DEF BusyOK
<1>3. done \in BOOLEAN /\ (outcome \in {"refused", "client_error"} => done = FALSE)
  BY DEF MayBeDone, AttemptOutcomes
<1>4. /\ DOMAIN slots' = Slots /\ applied' \in [Slots -> Nat] /\ errors' \in [Slots -> Nat]
      /\ applied'[slot] = IF done /\ r.path = "write" THEN applied[slot] + 1 ELSE applied[slot]
      /\ errors'[slot] = IF outcome = "server_error" /\ r.path = "write" THEN errors[slot] + 1 ELSE errors[slot]
      /\ \A other \in Slots \ {slot} : slots'[other] = slots[other]
            /\ applied'[other] = applied[other] /\ errors'[other] = errors[other]
  <2>1. DOMAIN slots = Slots /\ applied \in [Slots -> Nat] /\ errors \in [Slots -> Nat] BY DEF SlotInv
  <2>2. /\ applied' = [applied EXCEPT ![slot] = IF done /\ r.path = "write" THEN @ + 1 ELSE @]
        /\ errors' = [errors EXCEPT ![slot] = IF outcome = "server_error" /\ r.path = "write" THEN @ + 1 ELSE @]
        /\ DOMAIN slots' = DOMAIN slots
        /\ \A other \in Slots \ {slot} : slots'[other] = slots[other]
    BY <2>1 DEF Attempt
  <2> HIDE DEF r
  <2> QED BY <1>1, <2>1, <2>2
<1>5. slots'[slot] =
         IF IsRetried(outcome) /\ r.attempt < MaxTries THEN [r EXCEPT !.phase = "backoff"]
         ELSE IF r.path = "health" THEN NextBackend(r, outcome)
         ELSE [phase |-> "idle", status |-> ClientStatus(outcome)]
  BY DEF SlotInv, Attempt
<1>6. r.attempt \in 1 .. 3 /\ applied[slot] <= errors[slot] /\ (r.path # "write" => applied[slot] = 0)
      /\ (r.path = "write" => errors[slot] <= r.attempt - 1)
  BY <1>1, <1>2 DEF BusyOK, BusySlots, MaxTries
<1>7. CASE IsRetried(outcome) /\ r.attempt < MaxTries
  <2>1. slots'[slot] = [r EXCEPT !.phase = "backoff"] BY <1>5, <1>7
  <2>2. slots'[slot] \in BusySlots /\ slots'[slot].phase = "backoff" /\ slots'[slot].path = r.path
        /\ slots'[slot].attempt = r.attempt
    BY <2>1, <1>2 DEF BusySlots
  <2>3. done => outcome = "server_error" BY <1>3, <1>7 DEF IsRetried
  <2>4. applied'[slot] <= errors'[slot] /\ (r.path # "write" => applied'[slot] = 0)
        /\ (r.path = "write" => errors'[slot] <= r.attempt)
    <3> HIDE DEF r
    <3>1. CASE r.path = "write" /\ outcome = "server_error"
      BY <3>1, <1>1, <1>4, <1>6
    <3>2. CASE r.path = "write" /\ outcome # "server_error"
      BY <3>2, <2>3, <1>1, <1>4, <1>6
    <3>3. CASE r.path # "write" BY <3>3, <1>1, <1>4, <1>6
    <3> QED BY <3>1, <3>2, <3>3
  <2>5. BusyOK(slot)'
    <3> HIDE DEF r
    <3> QED BY <2>2, <2>4, <1>7 DEF BusyOK
  <2> QED BY <2>5, <1>4, OneSlotChanges
<1>8. CASE ~(IsRetried(outcome) /\ r.attempt < MaxTries) /\ r.path = "health"
  <2>1. slots'[slot] = NextBackend(r, outcome) BY <1>5, <1>8
  <2>2. applied'[slot] = 0 /\ errors'[slot] = errors[slot] BY <1>4, <1>6, <1>8
  <2>3. CASE r.backend < Len(Backends)
    <3> DEFINE overall == IF outcome = "ok" THEN r.overall ELSE "degraded"
    <3>1. slots'[slot] = [r EXCEPT !.backend = @ + 1, !.attempt = 1, !.phase = "call", !.overall = overall]
      BY <2>1, <2>3 DEF NextBackend
    <3>2. overall \in {"healthy", "degraded"} BY <1>2 DEF BusySlots
    <3>3. r.backend \in 1 .. Len(Backends) BY <1>2 DEF BusySlots
    <3>4. r.backend + 1 \in 1 .. Len(Backends) BY <2>3, <3>3, GatewayAssumption
    <3> HIDE DEF overall
    <3>5. slots'[slot] = [phase |-> "call", path |-> r.path, backend |-> r.backend + 1, attempt |-> 1,
                          overall |-> overall]
      <4>1. r = [phase |-> r.phase, path |-> r.path, backend |-> r.backend, attempt |-> r.attempt,
                 overall |-> r.overall]
        BY <1>2 DEF BusySlots
      <4> HIDE DEF r
      <4> QED BY <3>1, <4>1
    <3>7. slots'[slot] \in BusySlots /\ slots'[slot].phase = "call" /\ slots'[slot].path = "health"
      BY <3>5, <3>2, <3>4, <1>8 DEF BusySlots, MaxTries
    <3>6. BusyOK(slot)' BY <3>7, <2>2, <1>1 DEF BusyOK
    <3> QED BY <3>6, <1>4, OneSlotChanges
  <2>4. CASE ~(r.backend < Len(Backends))
    <3>1. slots'[slot].phase = "idle" /\ slots'[slot].status = 200 BY <2>1, <2>4 DEF NextBackend
    <3>2. IdleOK(slot)' BY <3>1, <2>2, <1>1 DEF IdleOK, Statuses, MaxTries
    <3> QED BY <3>2, <1>4, OneSlotChanges
  <2> QED BY <2>3, <2>4
<1>9. CASE ~(IsRetried(outcome) /\ r.attempt < MaxTries) /\ r.path # "health"
  <2>1. slots'[slot] = [phase |-> "idle", status |-> ClientStatus(outcome)] BY <1>5, <1>9
  <2>2. ClientStatus(outcome) \in Statuses
    <3>1. CASE outcome = "ok" BY <3>1 DEF ClientStatus, Statuses
    <3>2. CASE outcome = "client_error" BY <3>2 DEF ClientStatus, Statuses
    <3>3. CASE outcome \in {"server_error", "refused"} BY <3>3 DEF ClientStatus, Statuses
    <3>4. CASE outcome = "broken" BY <3>4 DEF ClientStatus, Statuses
    <3> QED BY <3>1, <3>2, <3>3, <3>4 DEF AttemptOutcomes
  <2>3. applied'[slot] <= 1 + errors'[slot] /\ applied'[slot] <= 3
    <3> HIDE DEF r
    <3>1. CASE r.path = "write"
      <4>1. applied'[slot] <= applied[slot] + 1 /\ errors[slot] <= errors'[slot]
            /\ applied'[slot] \in Nat /\ errors'[slot] \in Nat
        BY <1>1, <1>4
      <4> QED BY <3>1, <4>1, <1>1, <1>6
    <3>2. CASE r.path # "write" BY <3>2, <1>1, <1>4, <1>6
    <3> QED BY <3>1, <3>2
  <2>4. IdleOK(slot)' BY <2>1, <2>2, <2>3 DEF IdleOK, MaxTries
  <2> QED BY <2>4, <1>4, OneSlotChanges
<1> QED BY <1>7, <1>8, <1>9

LEMMA ResumeKeeps ==
  ASSUME SlotInv, NEW slot \in Slots, Resume(slot)
  PROVE  SlotInv'
<1> DEFINE r == slots[slot]
<1>1. BusyOK(slot) /\ r.phase = "backoff" /\ r \in BusySlots
  BY DEF SlotInv, IdleOK, Resume, BusyOK
<1>2. r.attempt \in 1 .. 3 /\ r.attempt < 3 BY <1>1 DEF BusyOK, BusySlots, MaxTries
<1>3. slots' = [slots EXCEPT ![slot] = [r EXCEPT !.phase = "call", !.attempt = @ + 1]]
  BY DEF Resume
<1>4. slots'[slot] \in BusySlots /\ slots'[slot].phase = "call" /\ slots'[slot].path = r.path
      /\ slots'[slot].attempt = r.attempt + 1
  <2>1. slots'[slot] = [r EXCEPT !.phase = "call", !.attempt = @ + 1] BY <1>3 DEF SlotInv
  <2>2. r = [phase |-> r.phase, path |-> r.path, backend |-> r.backend, attempt |-> r.attempt,
             overall |-> r.overall]
    BY <1>1 DEF BusySlots
  <2>3. /\ r.path \in {"read", "write", "health"} /\ r.backend \in 1 .. Len(Backends)
        /\ r.overall \in {"healthy", "degraded"}
    BY <1>1 DEF BusySlots
  <2> HIDE DEF r
  <2>4. slots'[slot] = [phase |-> "call", path |-> r.path, backend |-> r.backend,
                        attempt |-> r.attempt + 1, overall |-> r.overall]
    BY <2>1, <2>2
  <2>5. r.attempt + 1 \in 1 .. MaxTries BY <1>2 DEF MaxTries
  <2> QED BY <2>3, <2>4, <2>5 DEF BusySlots
<1>5. BusyOK(slot)' BY <1>1, <1>2, <1>4 DEF BusyOK, Resume
<1> QED BY <1>3, <1>5, OneSlotChanges DEF SlotInv, Resume

-----------------------------------------------------------------------------
LEMMA GatewayStart == GatewayInit => LimitInv /\ SlotInv
<1> SUFFICES ASSUME GatewayInit PROVE LimitInv /\ SlotInv OBVIOUS
<1>1. LimitInv
  BY GatewayAssumption
  DEF GatewayInit, LimitInv, AdmissionsOK, PromiseOK, WindowOK, SortedTimes, Nobody
<1>2. SlotInv
  BY DEF GatewayInit, SlotInv, IdleOK, FreeSlot, Statuses, MaxTries
<1> QED BY <1>1, <1>2

LEMMA GatewayStep ==
  ASSUME LimitInv, SlotInv, [GatewayNext]_gatewayVars
  PROVE  LimitInv' /\ SlotInv'
<1>1. CASE TickHalfSecond
  <2>1. LimitInv' BY <1>1, LimitKeptOverTime, GatewayAssumption DEF TickHalfSecond, LimitInv
  <2>2. SlotInv' BY <1>1 DEF TickHalfSecond, SlotInv, IdleOK, BusyOK
  <2> QED BY <2>1, <2>2
<1>2. ASSUME NEW slot \in Slots, NEW key \in Keys, NEW q \in GatewayRequests, Arrive(slot, key, q)
      PROVE  LimitInv' /\ SlotInv'
  <2>1. SlotInv'
    <3>1. applied' = [applied EXCEPT ![slot] = 0] /\ errors' = [errors EXCEPT ![slot] = 0]
      BY <1>2 DEF Arrive
    <3>2. slots' = [slots EXCEPT ![slot] = Dispatch(q)]
            \/ slots' = [slots EXCEPT ![slot] = [phase |-> "idle", status |-> 429]]
      BY <1>2 DEF Arrive
    <3> QED BY <3>1, <3>2, SlotTakesRequest
  <2>2. CASE q.path = "health"
    <3>1. UNCHANGED <<now, windows, admitted, promised>> BY <1>2, <2>2 DEF Arrive
    <3>2. now' \in now .. MaxNow BY <3>1 DEF LimitInv
    <3> QED BY <2>1, <3>1, <3>2, LimitKeptOverTime
  <2>3. CASE q.path # "health" /\ OverLimit(key)
    <3>1. LimitInv' BY <1>2, <2>3, RefusalKeeps DEF Arrive
    <3> QED BY <2>1, <3>1
  <2>4. CASE q.path # "health" /\ ~OverLimit(key)
    <3>1. LimitInv' BY <1>2, <2>4, AdmissionKeeps DEF Arrive
    <3> QED BY <2>1, <3>1
  <2> QED BY <2>2, <2>3, <2>4
<1>3. ASSUME UNCHANGED <<now, windows, admitted, promised>> PROVE LimitInv'
  <2>1. now' \in now .. MaxNow BY <1>3 DEF LimitInv
  <2> QED BY <1>3, <2>1, LimitKeptOverTime
<1>4. ASSUME NEW slot \in Slots, SlotStep(slot) PROVE LimitInv' /\ SlotInv'
  <2>1. ASSUME NEW outcome \in AttemptOutcomes, NEW done \in MayBeDone(outcome),
               Attempt(slot, outcome, done)
        PROVE  LimitInv' /\ SlotInv'
    <3>1. SlotInv' BY <2>1, AttemptKeeps
    <3>2. LimitInv' BY <2>1, <1>3 DEF Attempt
    <3> QED BY <3>1, <3>2
  <2>2. CASE Resume(slot)
    <3>1. SlotInv' BY <2>2, ResumeKeeps
    <3>2. LimitInv' BY <2>2, <1>3 DEF Resume
    <3> QED BY <3>1, <3>2
  <2> QED BY <1>4, <2>1, <2>2 DEF SlotStep
<1>5. CASE UNCHANGED gatewayVars
  <2>1. LimitInv' BY <1>5, <1>3 DEF gatewayVars
  <2>2. SlotInv' BY <1>5 DEF gatewayVars, SlotInv, IdleOK, BusyOK
  <2> QED BY <2>1, <2>2
<1> QED BY <1>1, <1>2, <1>4, <1>5 DEF GatewayNext

\* Requests that are RateLimit apart are a window apart: no more than RateLimit fit in one.
LEMMA NoWindowIsOverfull == LimitInv => NoWindowOverLimit
<1> SUFFICES ASSUME LimitInv, NEW key \in Keys, NEW i \in DOMAIN admitted[key]
    PROVE Cardinality({j \in DOMAIN admitted[key] :
            admitted[key][j] >= admitted[key][i] /\ admitted[key][j] < admitted[key][i] + Window}) <= RateLimit
  BY DEF NoWindowOverLimit
<1> DEFINE a == admitted[key]
           n == Len(a)
           S == {j \in DOMAIN a : a[j] >= a[i] /\ a[j] < a[i] + Window}
<1>1. a \in Seq(Nat) /\ n \in Nat /\ DOMAIN a = 1 .. n /\ (\A j \in 1 .. n : a[j] \in Nat)
      /\ SortedTimes(a) /\ \A j \in 1 .. n - RateLimit : a[j] + Window <= a[j + RateLimit]
  BY DEF LimitInv, AdmissionsOK
<1>2. i \in S BY <1>1, GatewayAssumption
<1>3. PICK least \in S : \A j \in S : least <= j
  <2>1. S \subseteq Nat BY <1>1
  <2> HIDE DEF S
  <2> QED BY <1>2, <2>1, LeastOf
<1>4. least \in 1 .. n /\ i \in 1 .. n BY <1>1
<1>5. ASSUME NEW j \in S PROVE j \in least .. least + RateLimit - 1
  <2>1. j \in 1 .. n /\ least <= j /\ a[j] < a[i] + Window /\ a[least] >= a[i] BY <1>1, <1>3
  <2>2. SUFFICES ASSUME j >= least + RateLimit PROVE FALSE
    BY <2>1, <1>4, GatewayAssumption
  <2>3. least + RateLimit \in 1 .. n /\ least \in 1 .. n - RateLimit
    <3> HIDE DEF a, n, S
    <3>1. n \in Nat /\ RateLimit \in Nat /\ RateLimit >= 1 BY <1>1, GatewayAssumption
    <3> QED BY <3>1, <2>1, <2>2, <1>4
  <2>4. a[least + RateLimit] <= a[j] BY <2>1, <2>2, <2>3, <1>1 DEF SortedTimes
  <2>5. a[least] + Window <= a[least + RateLimit] BY <2>3, <1>1
  <2> HIDE DEF a, n, S
  <2> QED BY <2>1, <2>3, <2>4, <2>5, <1>1, <1>4, GatewayAssumption
<1>6. S \subseteq least .. least + RateLimit - 1 BY <1>5
<1>7. /\ IsFiniteSet(least .. least + RateLimit - 1)
      /\ Cardinality(least .. least + RateLimit - 1) = RateLimit
  <2>1. least \in Int /\ least + RateLimit - 1 \in Int BY <1>4, GatewayAssumption
  <2> HIDE DEF S
  <2> DEFINE last == least + RateLimit - 1
  <2>2. last \in Int /\ ~ (least > last) /\ last - least + 1 = RateLimit BY <1>4, GatewayAssumption
  <2> HIDE DEF last
  <2>3. /\ IsFiniteSet(least .. last)
        /\ Cardinality(least .. last) = IF least > last THEN 0 ELSE last - least + 1
    BY <2>1, <2>2, FS_Interval
  <2>4. IsFiniteSet(least .. last) /\ Cardinality(least .. last) = RateLimit BY <2>2, <2>3
  <2> QED BY <2>4 DEF last
<1>8. Cardinality(S) <= RateLimit
  <2> HIDE DEF S
  <2>1. Cardinality(S) <= Cardinality(least .. least + RateLimit - 1) BY <1>6, <1>7, FS_Subset
  <2> QED BY <2>1, <1>7
<1> QED BY <1>8

LEMMA WaitingIsEnough == LimitInv => RetryAfterIsEnough
<1> SUFFICES ASSUME LimitInv, NEW key \in Keys, promised[key] # Nobody, now >= promised[key]
    PROVE Len(Recent(key, now)) < RateLimit
  BY DEF RetryAfterIsEnough
<1>1. AdmissionsOK(key) /\ PromiseOK(key) /\ now \in Nat BY DEF LimitInv
<1>2. PICK k \in 0 .. Len(windows[key]) :
          /\ Recent(key, now) = [i \in 1 .. Len(windows[key]) - k |-> windows[key][i + k]]
          /\ \A i \in k + 1 .. Len(windows[key]) : windows[key][i] + Window > now
  BY RecentIsSuffix
<1>3. Len(windows[key]) \in Nat /\ Len(windows[key]) <= RateLimit BY <1>1 DEF AdmissionsOK
<1>4. Len(windows[key]) > 0 /\ windows[key][1] + Window <= promised[key] /\ promised[key] \in Nat
  BY <1>1 DEF PromiseOK
<1>5. windows[key][1] \in Nat
  <2>1. windows[key] \in Seq(Nat) /\ 1 \in 1 .. Len(windows[key]) BY <1>1, <1>3, <1>4 DEF AdmissionsOK
  <2> QED BY <2>1
<1>6. k # 0
  <2> SUFFICES ASSUME k = 0 PROVE FALSE OBVIOUS
  <2>1. 1 \in k + 1 .. Len(windows[key]) BY <1>3, <1>4
  <2>2. windows[key][1] + Window > now BY <2>1, <1>2
  <2> QED BY <2>2, <1>1, <1>4, <1>5, GatewayAssumption
<1>7. Len(Recent(key, now)) = Len(windows[key]) - k
  BY <1>2, <1>3
<1> QED BY <1>3, <1>6, <1>7, GatewayAssumption

LEMMA WritesAreBounded == SlotInv => WritesRepeatOnlyAfterErrors
<1> SUFFICES ASSUME SlotInv, NEW slot \in Slots
    PROVE applied[slot] <= 1 + errors[slot] /\ applied[slot] <= MaxTries
  BY DEF WritesRepeatOnlyAfterErrors
<1>1. applied[slot] \in Nat /\ errors[slot] \in Nat BY DEF SlotInv
<1>2. CASE IdleOK(slot) BY <1>2 DEF IdleOK
<1>3. CASE BusyOK(slot)
  <2>1. slots[slot].attempt \in 1 .. 3 BY <1>3 DEF BusyOK, BusySlots, MaxTries
  <2> QED BY <1>1, <1>3, <2>1 DEF BusyOK, MaxTries
<1> QED BY <1>2, <1>3 DEF SlotInv

LEMMA GatewayTyped == LimitInv /\ SlotInv => GatewayTypeOK
<1> SUFFICES ASSUME LimitInv, SlotInv PROVE GatewayTypeOK OBVIOUS
<1>1. ASSUME NEW slot \in Slots
      PROVE IF slots[slot].phase = "idle"
        THEN slots[slot].status \in {0, 200, 401, 404, 413, 429, 500, 502}
        ELSE /\ slots[slot].phase \in {"call", "backoff"}
             /\ slots[slot].attempt \in 1 .. MaxTries
             /\ slots[slot].backend \in 1 .. Len(Backends)
  <2>1. CASE IdleOK(slot) BY <2>1 DEF IdleOK, Statuses
  <2>2. CASE BusyOK(slot) BY <2>2 DEF BusyOK, BusySlots
  <2> QED BY <2>1, <2>2 DEF SlotInv
<1>2. \A key \in Keys : Len(windows[key]) <= RateLimit /\ promised[key] \in {Nobody} \cup Nat
  BY DEF LimitInv, AdmissionsOK, PromiseOK
<1> QED BY <1>1, <1>2 DEF GatewayTypeOK, LimitInv

\* For any limit, window, clock and number of clients and slots: no window, wherever it starts,
\* admits more than the limit, a client that waits as Retry-After says is let through
\* (RateLimitMiddleware), and a write is carried out a second time only after its service
\* answered 5xx (the proxy's retries).
THEOREM LimitsHold == GatewaySpec => []LimitsAndRetriesHold
<1>1. GatewayInit => LimitInv /\ SlotInv BY GatewayStart
<1>2. LimitInv /\ SlotInv /\ [GatewayNext]_gatewayVars => LimitInv' /\ SlotInv' BY GatewayStep
<1>3. LimitInv /\ SlotInv => LimitsAndRetriesHold
  BY NoWindowIsOverfull, WaitingIsEnough, WritesAreBounded, GatewayTyped DEF LimitsAndRetriesHold
<1> QED BY <1>1, <1>2, <1>3, PTL DEF GatewaySpec

-----------------------------------------------------------------------------
(*****************************************************************************)
(* LLM client                                                                *)
(*                                                                           *)
(* check_budget and record are an await apart.  The invariant bounds what was *)
(* spent and what may still come of the calls in flight, each at most the    *)
(* dearest charge, by the budget and the overlap seen so far (SpendOK).      *)
(*****************************************************************************)

\* A finite list of naturals is bounded.
LEMMA ListIsBounded ==
  ASSUME NEW n \in Nat, NEW list \in [1 .. n -> Nat]
  PROVE  \E b \in Nat : \A i \in 1 .. n : list[i] <= b
<1> DEFINE Bounded(k) == \E b \in Nat : \A i \in 1 .. k : list[i] <= b
           S == {k \in 0 .. n : ~Bounded(k)}
<1>1. SUFFICES ASSUME S # {} PROVE FALSE
  <2>1. n \in 0 .. n OBVIOUS
  <2>2. S = {} => Bounded(n) BY <2>1
  <2> QED BY <2>2
<1>2. PICK k \in S : \A j \in S : k <= j
  <2>1. S \subseteq Nat OBVIOUS
  <2> HIDE DEF S
  <2> QED BY <1>1, <2>1, LeastOf
<1>3. k # 0
  <2>1. \A i \in 1 .. 0 : list[i] <= 0 OBVIOUS
  <2>2. Bounded(0) BY <2>1
  <2> QED BY <2>2
<1>4. k - 1 \in 0 .. n /\ k \in 1 .. n /\ list[k] \in Nat BY <1>3
<1>5. Bounded(k - 1)
  <2>1. k - 1 \notin S
    <3> HIDE DEF S
    <3> QED BY <1>2, <1>4
  <2> QED BY <2>1, <1>4
<1>6. PICK b \in Nat : \A i \in 1 .. k - 1 : list[i] <= b BY <1>5
<1>7. \A i \in 1 .. k : i \in 1 .. k - 1 \/ i = k BY <1>4
<1>8. CASE list[k] <= b
  <2>1. \A i \in 1 .. k : list[i] <= b BY <1>6, <1>7, <1>8
  <2>2. Bounded(k) BY <2>1
  <2> QED BY <2>2
<1>9. CASE list[k] > b
  <2>1. ASSUME NEW i \in 1 .. k PROVE list[i] <= list[k]
    <3>1. CASE i = k BY <3>1, <1>4
    <3>2. CASE i \in 1 .. k - 1
      <4>1. list[i] <= b /\ list[i] \in Nat BY <3>2, <1>6, <1>4
      <4> QED BY <4>1, <1>4, <1>9
    <3> QED BY <3>1, <3>2, <1>7
  <2>2. Bounded(k) BY <2>1, <1>4
  <2> QED BY <2>2
<1> QED BY <1>8, <1>9, <1>4

\* A set of naturals that is bounded has the maximum its CHOOSE names.
LEMMA BoundedMax ==
  ASSUME NEW S, S \subseteq Nat, S # {}, NEW b \in Nat, \A x \in S : x <= b
  PROVE  Max(S) \in S /\ \A y \in S : y <= Max(S)
<1> DEFINE D == {b - x : x \in S}
<1>1. D \subseteq Nat /\ D # {}
  <2>1. \A x \in S : b - x \in Nat OBVIOUS
  <2> QED BY <2>1
<1>2. PICK d \in D : \A e \in D : d <= e
  <2> HIDE DEF D
  <2> QED BY <1>1, LeastOf
<1>3. PICK x \in S : d = b - x BY <1>2
<1>4. \A y \in S : b - x <= b - y BY <1>2, <1>3
<1>5. ASSUME NEW y \in S PROVE x >= y
  <2>1. x \in Nat /\ y \in Nat OBVIOUS
  <2>2. b - x <= b - y BY <1>4
  <2> HIDE DEF D
  <2> QED BY <2>1, <2>2
<1> QED BY <1>5 DEF Max

\* The values a function takes on a finite set have a maximum.
LEMMA FiniteMax ==
  ASSUME NEW S, IsFiniteSet(S), S # {}, NEW f \in [S -> Nat]
  PROVE  LET T == {f[x] : x \in S} IN Max(T) \in T /\ \A y \in T : y <= Max(T)
<1> DEFINE T == {f[x] : x \in S}
<1>1. PICK n \in Nat : ExistsBijection(1 .. n, S) BY FS_NatBijection
<1>2. PICK g \in Bijection(1 .. n, S) : TRUE BY <1>1 DEF ExistsBijection
<1>3. g \in [1 .. n -> S] /\ \A x \in S : \E i \in 1 .. n : g[i] = x
  BY <1>2 DEF Bijection, Injection, Surjection
<1> DEFINE list == [i \in 1 .. n |-> f[g[i]]]
<1>4. list \in [1 .. n -> Nat] BY <1>3
<1>5. PICK b \in Nat : \A i \in 1 .. n : list[i] <= b
  <2> HIDE DEF list
  <2> QED BY <1>4, ListIsBounded
<1>6. \A x \in S : f[x] <= b BY <1>3, <1>5
<1>7. T \subseteq Nat /\ T # {} /\ \A y \in T : y <= b BY <1>6
<1>8. Max(T) \in T /\ \A y \in T : y <= Max(T)
  <2> HIDE DEF T
  <2> QED BY <1>7, BoundedMax
<1> QED BY <1>8

-----------------------------------------------------------------------------
\* Prices

LEMMA PriceType ==
  ASSUME NEW model \in Models, NEW input \in Nat, NEW output \in Nat
  PROVE  CostOf(model, input, output) \in Nat
BY DEF Models, CostOf, ResolvePricing

LEMMA PricesAdd ==
  ASSUME NEW model \in Models, NEW i \in Nat, NEW o \in Nat, NEW j \in Nat, NEW p \in Nat
  PROVE  CostOf(model, i + j, o + p) = CostOf(model, i, o) + CostOf(model, j, p)
<1>1. CASE model = "claude-opus-4" BY <1>1 DEF CostOf, ResolvePricing
<1>2. CASE model = "claude-haiku-3" BY <1>2 DEF CostOf, ResolvePricing
<1>3. CASE model \in {"claude-sonnet-4", "other"} BY <1>3 DEF CostOf, ResolvePricing
<1> QED BY <1>1, <1>2, <1>3 DEF Models

LEMMA PricesGrow ==
  ASSUME NEW model \in Models, NEW i \in Nat, NEW o \in Nat, NEW p \in Nat, o <= p
  PROVE  CostOf(model, i, o) <= CostOf(model, i, p)
<1>1. CASE model = "claude-opus-4" BY <1>1 DEF CostOf, ResolvePricing
<1>2. CASE model = "claude-haiku-3" BY <1>2 DEF CostOf, ResolvePricing
<1>3. CASE model \in {"claude-sonnet-4", "other"} BY <1>3 DEF CostOf, ResolvePricing
<1> QED BY <1>1, <1>2, <1>3 DEF Models

LEMMA PromptType ==
  ASSUME NEW q \in Prompts
  PROVE  q.model \in Models /\ q.input \in Nat /\ q.max \in Nat \ {0}
BY LlmAssumption DEF Models

LEMMA Dearest ==
  /\ DearestEstimate \in Nat /\ DearestExcess \in Nat
  /\ \A q \in Prompts : EstimatedCost(q) \in Nat /\ EstimatedCost(q) <= DearestEstimate
  /\ \A q \in Prompts : CostOf(q.model, Unseen, 0) \in Nat /\ CostOf(q.model, Unseen, 0) <= DearestExcess
<1>1. \A q \in Prompts : EstimatedCost(q) \in Nat /\ CostOf(q.model, Unseen, 0) \in Nat
  BY PromptType, PriceType, LlmAssumption DEF EstimatedCost
<1> DEFINE f == [q \in Prompts |-> EstimatedCost(q)]
           g == [q \in Prompts |-> CostOf(q.model, Unseen, 0)]
<1>2. f \in [Prompts -> Nat] /\ g \in [Prompts -> Nat] BY <1>1
<1>3. LET T == {f[x] : x \in Prompts} IN Max(T) \in T /\ \A y \in T : y <= Max(T)
  <2> HIDE DEF f
  <2> QED BY <1>2, FiniteMax, LlmAssumption
<1>4. LET T == {g[x] : x \in Prompts} IN Max(T) \in T /\ \A y \in T : y <= Max(T)
  <2> HIDE DEF g
  <2> QED BY <1>2, FiniteMax, LlmAssumption
<1>5. {f[q] : q \in Prompts} = {EstimatedCost(q) : q \in Prompts}
      /\ {g[q] : q \in Prompts} = {CostOf(q.model, Unseen, 0) : q \in Prompts}
  OBVIOUS
<1> HIDE DEF f, g
<1>6. DearestEstimate \in {EstimatedCost(q) : q \in Prompts}
      /\ \A y \in {EstimatedCost(q) : q \in Prompts} : y <= DearestEstimate
  BY <1>3, <1>5 DEF DearestEstimate
<1>7. DearestExcess \in {CostOf(q.model, Unseen, 0) : q \in Prompts}
      /\ \A y \in {CostOf(q.model, Unseen, 0) : q \in Prompts} : y <= DearestExcess
  BY <1>4, <1>5 DEF DearestExcess
<1> QED BY <1>1, <1>6, <1>7

\* What is charged for a request is within its estimate and the part the estimate does not see.
LEMMA ChargeIsBounded ==
  ASSUME NEW q \in Prompts, NEW u \in Usages(q)
  PROVE  /\ u.input \in Nat /\ u.output \in Nat
         /\ CostOf(q.model, u.input, u.output) \in Nat
         /\ CostOf(q.model, u.input, u.output) <= EstimatedCost(q) + DearestExcess
<1>1. q.model \in Models /\ q.input \in Nat /\ q.max \in Nat \ {0} BY PromptType
<1>2. u.input \in {q.input, q.input + Unseen} /\ u.output \in {1, q.max} BY DEF Usages
<1>3. u.input \in Nat /\ u.output \in Nat /\ u.output <= q.max BY <1>1, <1>2, LlmAssumption
<1>4. CostOf(q.model, u.input, u.output) \in Nat BY <1>1, <1>3, PriceType
<1>5. CostOf(q.model, u.input, u.output) <= CostOf(q.model, u.input, q.max)
      /\ CostOf(q.model, u.input, q.max) \in Nat
  BY <1>1, <1>3, PricesGrow, PriceType
<1>6. CostOf(q.model, u.input, q.max) <= EstimatedCost(q) + DearestExcess
  <2>1. CASE u.input = q.input BY <2>1, Dearest DEF EstimatedCost
  <2>2. CASE u.input = q.input + Unseen
    <3>1. CostOf(q.model, q.input + Unseen, q.max + 0)
            = CostOf(q.model, q.input, q.max) + CostOf(q.model, Unseen, 0)
      BY <1>1, LlmAssumption, PricesAdd
    <3>2. q.max + 0 = q.max BY <1>1
    <3>3. EstimatedCost(q) = CostOf(q.model, q.input, q.max) BY DEF EstimatedCost
    <3>4. EstimatedCost(q) \in Nat /\ CostOf(q.model, Unseen, 0) \in Nat
          /\ CostOf(q.model, Unseen, 0) <= DearestExcess /\ DearestExcess \in Nat
      BY Dearest
    <3>5. CostOf(q.model, u.input, q.max) = EstimatedCost(q) + CostOf(q.model, Unseen, 0)
      BY <2>2, <3>1, <3>2, <3>3
    <3> QED BY <3>4, <3>5
  <2> QED BY <1>2, <2>1, <2>2
<1>7. EstimatedCost(q) \in Nat /\ DearestExcess \in Nat BY Dearest
<1> QED BY <1>3, <1>4, <1>5, <1>6, <1>7

-----------------------------------------------------------------------------
Results == {"none", "answer", "budget", "rate", "error", "response"}
LlmCalls ==
    [phase : {"idle"}, result : Results]
    \cup [phase : {"wait"}, request : Prompts, sleep : Nat]
    \cup [phase : {"send"}, request : Prompts, attempt : 1 .. MaxAttempts]
    \cup [phase : {"backoff"}, request : Prompts, attempt : 1 .. MaxAttempts - 1]

BucketOK == bucket \in [tokens : 0 .. MaxTokens * Minute, requests : 0 .. MaxRequests * Minute, elapsed : 0 .. Minute]

RequestsUnder(model) == IF model \in DOMAIN tracker THEN tracker[model].requests ELSE 0
AllRequests ==
    RequestsUnder("claude-opus-4") + RequestsUnder("claude-sonnet-4") + RequestsUnder("claude-haiku-3")
    + RequestsUnder("other")

TrackerOK ==
    /\ DOMAIN tracker \subseteq Models
    /\ \A model \in DOMAIN tracker :
        /\ tracker[model] \in [input : Nat, output : Nat, cost : Nat, requests : Nat \ {0}]
        /\ tracker[model].cost = CostOf(model, tracker[model].input, tracker[model].output)
    /\ TotalCost = charged

\* Every answer that is counted was asked for by a call of its own.
StartsOK ==
    /\ started \in 0 .. MaxCalls /\ overlap \in 0 .. Cardinality(Callers)
    /\ AllRequests + Cardinality(InFlight) <= started

DearestCharge == DearestEstimate + DearestExcess
Charges(n) == n * DearestCharge
Limit == MaxBudget + Charges(overlap - 1) + DearestExcess

\* What may still come of the calls in flight: each of them at most the dearest charge, the one
\* that was let in last no more than its estimate said and the part of it nobody sees.
SpendOK ==
    overlap > 0 =>
        \/ TotalCost + Charges(Cardinality(InFlight)) <= Limit
        \/ \E c \in InFlight :
              TotalCost + EstimatedCost(calls[c].request) + DearestExcess
                + Charges(Cardinality(InFlight) - 1) <= Limit

LlmInv ==
    /\ calls \in [Callers -> LlmCalls]
    /\ warned \subseteq {75, 90}
    /\ BucketOK /\ TrackerOK /\ StartsOK /\ SpendOK

LEMMA InFlightFinite ==
  IsFiniteSet(InFlight) /\ Cardinality(InFlight) \in Nat /\ Cardinality(InFlight) <= Cardinality(Callers)
  /\ Cardinality(Callers) \in Nat
<1>1. InFlight \subseteq Callers BY DEF InFlight
<1> QED BY <1>1, LlmAssumption, FS_Subset, FS_CardinalityType

LEMMA TotalType == TrackerOK => TotalCost \in Nat
<1> SUFFICES ASSUME TrackerOK PROVE TotalCost \in Nat OBVIOUS
<1>1. \A model : CostUnder(model) \in Nat BY DEF TrackerOK, CostUnder
<1> QED BY <1>1 DEF TotalCost

LEMMA RequestsType == TrackerOK => AllRequests \in Nat /\ \A model : RequestsUnder(model) \in Nat
<1> SUFFICES ASSUME TrackerOK PROVE AllRequests \in Nat /\ \A model : RequestsUnder(model) \in Nat OBVIOUS
<1>1. \A model : RequestsUnder(model) \in Nat BY DEF TrackerOK, RequestsUnder
<1> QED BY <1>1 DEF AllRequests

-----------------------------------------------------------------------------
\* The rate limiter

LEMMA MinOfTwo ==
  ASSUME NEW a \in Int, NEW b \in Int
  PROVE  Min({a, b}) = IF a <= b THEN a ELSE b
BY DEF Min

LEMMA MaxOfTwo ==
  ASSUME NEW a \in Int, NEW b \in Int
  PROVE  Max({a, b}) = IF a >= b THEN a ELSE b
BY DEF Max

LEMMA MaxOfThree ==
  ASSUME NEW a \in Int, NEW b \in Int, NEW c \in Int
  PROVE  Max({a, b, c}) \in Int /\ Max({a, b, c}) >= c
<1>1. \E x \in {a, b, c} : \A y \in {a, b, c} : x >= y OBVIOUS
<1>2. Max({a, b, c}) \in {a, b, c} /\ \A y \in {a, b, c} : Max({a, b, c}) >= y
  BY <1>1 DEF Max
<1> QED BY <1>2

LEMMA ProductType ==
  ASSUME NEW a \in Nat, NEW b \in Nat
  PROVE  a * b \in Nat
OBVIOUS

LEMMA RefillKeeps ==
  ASSUME BucketOK
  PROVE  Refill \in [tokens : 0 .. MaxTokens * Minute, requests : 0 .. MaxRequests * Minute, elapsed : 0 .. Minute]
<1> DEFINE full == MaxTokens * Minute
           all == MaxRequests * Minute
           t == bucket.elapsed * MaxTokens
           r == bucket.elapsed * MaxRequests
<1>1. bucket.tokens \in 0 .. full /\ bucket.requests \in 0 .. all /\ bucket.elapsed \in 0 .. Minute
  BY DEF BucketOK
<1>2. full \in Nat /\ all \in Nat BY LlmAssumption, ProductType
<1>3. bucket.elapsed \in Nat BY <1>1, LlmAssumption
<1>4. t \in Nat /\ r \in Nat BY <1>3, LlmAssumption, ProductType
<1>5. Refill = [tokens |-> Min({full, bucket.tokens + t}), requests |-> Min({all, bucket.requests + r}), elapsed |-> 0]
  BY DEF Refill
<1> HIDE DEF full, all, t, r
<1>6. Min({full, bucket.tokens + t}) \in 0 .. full
  <2>1. bucket.tokens + t \in Nat BY <1>1, <1>2, <1>4
  <2> QED BY <2>1, <1>2, MinOfTwo
<1>7. Min({all, bucket.requests + r}) \in 0 .. all
  <2>1. bucket.requests + r \in Nat BY <1>1, <1>2, <1>4
  <2> QED BY <2>1, <1>2, MinOfTwo
<1>8. 0 \in 0 .. Minute BY LlmAssumption
<1>9. Refill \in [tokens : 0 .. full, requests : 0 .. all, elapsed : 0 .. Minute]
  BY <1>5, <1>6, <1>7, <1>8
<1> QED BY <1>9 DEF full, all

LEMMA WaitType ==
  ASSUME NEW b, b.tokens \in Nat, b.requests \in Nat, NEW q \in Prompts
  PROVE  WaitTime(b, q) \in Nat
<1> DEFINE Ticks(deficit, rate) == IF deficit <= 0 THEN 0 ELSE (deficit + rate - 1) \div rate
<1>1. EstimatedTokens(q) \in Nat BY PromptType DEF EstimatedTokens
<1>2. EstimatedTokens(q) * Minute \in Nat BY <1>1, LlmAssumption, ProductType
<1>3. ASSUME NEW d \in Int, NEW r \in Nat \ {0} PROVE Ticks(d, r) \in Int
  BY <1>3
<1>4. Ticks(EstimatedTokens(q) * Minute - b.tokens, MaxTokens) \in Int
      /\ Ticks(Minute - b.requests, MaxRequests) \in Int
  <2>1. EstimatedTokens(q) * Minute - b.tokens \in Int /\ Minute - b.requests \in Int BY <1>2, LlmAssumption
  <2> HIDE DEF Ticks
  <2> QED BY <2>1, <1>3, LlmAssumption
<1>5. WaitTime(b, q) = Max({Ticks(EstimatedTokens(q) * Minute - b.tokens, MaxTokens),
                            Ticks(Minute - b.requests, MaxRequests), 1})
  BY DEF WaitTime
<1> HIDE DEF Ticks
<1>6. WaitTime(b, q) \in Int /\ WaitTime(b, q) >= 1 BY <1>4, <1>5, MaxOfThree
<1> QED BY <1>6

LEMMA AcquireKeeps ==
  ASSUME BucketOK, calls \in [Callers -> LlmCalls], NEW c \in Callers, NEW q \in Prompts, Acquire(c, q)
  PROVE  /\ BucketOK' /\ calls' \in [Callers -> LlmCalls]
         /\ calls'[c].phase # "idle" /\ calls'[c].request = q
         /\ \A d \in Callers \ {c} : calls'[d] = calls[d]
<1> DEFINE full == MaxTokens * Minute
           all == MaxRequests * Minute
           est == EstimatedTokens(q) * Minute
<1>1. Refill \in [tokens : 0 .. full, requests : 0 .. all, elapsed : 0 .. Minute] BY RefillKeeps
<1>2. full \in Nat /\ all \in Nat BY LlmAssumption, ProductType
<1>3. est \in Nat
  <2>1. EstimatedTokens(q) \in Nat BY PromptType DEF EstimatedTokens
  <2> QED BY <2>1, LlmAssumption, ProductType
<1>4. CASE HasCapacity(Refill, q)
  <2>1. bucket' = [Refill EXCEPT !.tokens = @ - est, !.requests = @ - Minute]
        /\ calls' = [calls EXCEPT ![c] = [phase |-> "send", request |-> q, attempt |-> 1]]
    BY <1>4 DEF Acquire
  <2>2. Refill.tokens >= est /\ Refill.requests >= Minute BY <1>4 DEF HasCapacity
  <2>3. bucket' \in [tokens : 0 .. full, requests : 0 .. all, elapsed : 0 .. Minute]
    <3> HIDE DEF full, all, est
    <3>1. Refill.tokens \in 0 .. full /\ Refill.requests \in 0 .. all /\ Refill.elapsed \in 0 .. Minute
      BY <1>1
    <3>2. Refill.tokens - est \in 0 .. full /\ Refill.requests - Minute \in 0 .. all
      BY <3>1, <2>2, <1>2, <1>3, LlmAssumption
    <3>3. Refill = [tokens |-> Refill.tokens, requests |-> Refill.requests, elapsed |-> Refill.elapsed]
      BY <1>1
    <3>4. bucket' = [tokens |-> Refill.tokens - est, requests |-> Refill.requests - Minute,
                     elapsed |-> Refill.elapsed]
      BY <2>1, <3>3
    <3> QED BY <3>1, <3>2, <3>4
  <2>4. [phase |-> "send", request |-> q, attempt |-> 1] \in LlmCalls BY LlmAssumption DEF LlmCalls
  <2> HIDE DEF full, all, est
  <2>5. calls' \in [Callers -> LlmCalls] /\ calls'[c] = [phase |-> "send", request |-> q, attempt |-> 1]
        /\ \A d \in Callers \ {c} : calls'[d] = calls[d]
    BY <2>1, <2>4
  <2> QED BY <2>3, <2>5 DEF BucketOK, full, all
<1>5. CASE ~HasCapacity(Refill, q)
  <2>1. bucket' = Refill
        /\ calls' = [calls EXCEPT ![c] = [phase |-> "wait", request |-> q, sleep |-> WaitTime(Refill, q)]]
    BY <1>5 DEF Acquire
  <2>2. Refill.tokens \in Nat /\ Refill.requests \in Nat
    <3> HIDE DEF full, all
    <3> QED BY <1>1, <1>2
  <2>3. [phase |-> "wait", request |-> q, sleep |-> WaitTime(Refill, q)] \in LlmCalls
    BY <2>2, WaitType DEF LlmCalls
  <2>4. calls' \in [Callers -> LlmCalls]
        /\ calls'[c] = [phase |-> "wait", request |-> q, sleep |-> WaitTime(Refill, q)]
        /\ \A d \in Callers \ {c} : calls'[d] = calls[d]
    BY <2>1, <2>3
  <2> QED BY <1>1, <2>1, <2>4 DEF BucketOK
<1> QED BY <1>4, <1>5

-----------------------------------------------------------------------------
\* The cost tracker

LEMMA RecordKeeps ==
  ASSUME TrackerOK, NEW model \in Models, NEW i \in Nat, NEW o \in Nat,
         tracker' = RecordUsage(model, i, o), charged' = charged + CostOf(model, i, o)
  PROVE  TrackerOK' /\ TotalCost' = TotalCost + CostOf(model, i, o) /\ AllRequests' = AllRequests + 1
<1> DEFINE acc == IF model \in DOMAIN tracker THEN tracker[model] ELSE NoUsage
           cost == CostOf(model, i, o)
           new == [input |-> acc.input + i, output |-> acc.output + o,
                   cost |-> acc.cost + cost, requests |-> acc.requests + 1]
<1>1. acc.input \in Nat /\ acc.output \in Nat /\ acc.cost \in Nat /\ acc.requests \in Nat
      /\ acc.cost = CostOf(model, acc.input, acc.output)
      /\ acc.cost = CostUnder(model) /\ acc.requests = RequestsUnder(model)
  <2>1. CASE model \in DOMAIN tracker
    BY <2>1 DEF TrackerOK, CostUnder, RequestsUnder
  <2>2. CASE model \notin DOMAIN tracker
    <3>1. CostOf(model, 0, 0) = 0 BY DEF CostOf, ResolvePricing, Models
    <3> QED BY <2>2, <3>1 DEF NoUsage, CostUnder, RequestsUnder
  <2> QED BY <2>1, <2>2
<1>2. cost \in Nat BY PriceType
<1>3. DOMAIN tracker' = DOMAIN tracker \cup {model}
      /\ \A m \in DOMAIN tracker \cup {model} : tracker'[m] = IF m = model THEN new ELSE tracker[m]
  BY DEF RecordUsage
<1>4. new.cost = CostOf(model, new.input, new.output)
  <2>1. CostOf(model, acc.input + i, acc.output + o) = CostOf(model, acc.input, acc.output) + cost
    <3> DEFINE ai == acc.input
               ao == acc.output
    <3>1. ai \in Nat /\ ao \in Nat BY <1>1
    <3> HIDE DEF ai, ao
    <3>2. CostOf(model, ai + i, ao + o) = CostOf(model, ai, ao) + CostOf(model, i, o) BY <3>1, PricesAdd
    <3> QED BY <3>2 DEF ai, ao
  <2> HIDE DEF acc, cost
  <2> QED BY <2>1, <1>1
<1>5. new \in [input : Nat, output : Nat, cost : Nat, requests : Nat \ {0}]
  <2> HIDE DEF acc, cost
  <2> QED BY <1>1, <1>2
<1>6. new.cost = CostUnder(model) + cost /\ new.requests = RequestsUnder(model) + 1
  <2> HIDE DEF acc, cost
  <2> QED BY <1>1
<1> HIDE DEF new, cost, acc
<1>7. CostUnder(model)' = CostUnder(model) + cost /\ RequestsUnder(model)' = RequestsUnder(model) + 1
  BY <1>3, <1>6 DEF CostUnder, RequestsUnder
<1>8. \A m : m # model => CostUnder(m)' = CostUnder(m) /\ RequestsUnder(m)' = RequestsUnder(m)
  BY <1>3 DEF CostUnder, RequestsUnder
<1>9. \A m : CostUnder(m) \in Nat /\ RequestsUnder(m) \in Nat
  BY DEF TrackerOK, CostUnder, RequestsUnder
<1>10. TotalCost' = TotalCost + cost /\ AllRequests' = AllRequests + 1
  <2>1. CASE model = "claude-opus-4" BY <2>1, <1>2, <1>7, <1>8, <1>9 DEF TotalCost, AllRequests
  <2>2. CASE model = "claude-sonnet-4" BY <2>2, <1>2, <1>7, <1>8, <1>9 DEF TotalCost, AllRequests
  <2>3. CASE model = "claude-haiku-3" BY <2>3, <1>2, <1>7, <1>8, <1>9 DEF TotalCost, AllRequests
  <2>4. CASE model = "other" BY <2>4, <1>2, <1>7, <1>8, <1>9 DEF TotalCost, AllRequests
  <2> QED BY <2>1, <2>2, <2>3, <2>4 DEF Models
<1>11. TrackerOK'
  <2>1. DOMAIN tracker' \subseteq Models BY <1>3 DEF TrackerOK
  <2>2. ASSUME NEW m \in DOMAIN tracker'
        PROVE  /\ tracker'[m] \in [input : Nat, output : Nat, cost : Nat, requests : Nat \ {0}]
               /\ tracker'[m].cost = CostOf(m, tracker'[m].input, tracker'[m].output)
    <3>1. CASE m = model BY <3>1, <1>3, <1>4, <1>5
    <3>2. CASE m # model BY <3>2, <1>3 DEF TrackerOK
    <3> QED BY <3>1, <3>2
  <2>3. TotalCost' = charged' BY <1>10 DEF TrackerOK, cost
  <2> QED BY <2>1, <2>2, <2>3 DEF TrackerOK
<1> QED BY <1>10, <1>11 DEF cost

\* The tracker is the same.
LEMMA TrackerStays ==
  ASSUME TrackerOK, UNCHANGED <<tracker, charged>>
  PROVE  TrackerOK' /\ TotalCost' = TotalCost /\ AllRequests' = AllRequests
<1>1. TotalCost' = TotalCost BY DEF TotalCost, CostUnder
<1>2. AllRequests' = AllRequests BY DEF AllRequests, RequestsUnder
<1> QED BY <1>1, <1>2 DEF TrackerOK

-----------------------------------------------------------------------------
\* What may still come of the calls in flight

LEMMA ChargesType ==
  /\ DearestCharge \in Nat /\ DearestExcess \in Nat
  /\ \A q \in Prompts : EstimatedCost(q) \in Nat /\ EstimatedCost(q) + DearestExcess <= DearestCharge
BY Dearest DEF DearestCharge

LEMMA ChargesCount ==
  ASSUME NEW n \in Int
  PROVE  /\ Charges(n) \in Int /\ Charges(n - 1) = Charges(n) - DearestCharge
         /\ n >= 0 => Charges(n) \in Nat
<1> DEFINE D == DearestCharge
<1>1. D \in Nat BY ChargesType
<1> HIDE DEF D
<1>2. n * D \in Int /\ (n - 1) * D = n * D - D BY <1>1
<1>3. n >= 0 => n * D \in Nat BY <1>1, ProductType
<1> QED BY <1>2, <1>3 DEF Charges, D

LEMMA MoreCharges ==
  ASSUME NEW n \in Nat, NEW m \in Nat, n <= m
  PROVE  Charges(n) <= Charges(m)
<1> DEFINE D == DearestCharge
<1>1. D \in Nat BY ChargesType
<1> HIDE DEF D
<1>2. m * D = n * D + (m - n) * D /\ n * D \in Int BY <1>1
<1>3. (m - n) * D \in Nat
  <2>1. m - n \in Nat OBVIOUS
  <2> QED BY <1>1, <2>1, ProductType
<1>4. n * D <= m * D
  <2> DEFINE a == n * D
             b == m * D
             r == (m - n) * D
  <2>1. a \in Int /\ b = a + r /\ r \in Nat BY <1>2, <1>3
  <2> HIDE DEF a, b, r
  <2>2. a <= b BY <2>1
  <2> QED BY <2>2 DEF a, b
<1> QED BY <1>4 DEF Charges, D

LEMMA LimitType == overlap \in Nat => Limit \in Int
BY ChargesCount, ChargesType, LlmAssumption DEF Limit

\* A call in flight ends, with the charge it was let in for or without one.
LEMMA CallEnds ==
  ASSUME SpendOK, NEW c \in InFlight, calls[c].request \in Prompts, calls \in [Callers -> LlmCalls],
         \A d \in InFlight : calls[d].request \in Prompts,
         NEW result \in Results, calls' = [calls EXCEPT ![c] = Idle(result)], UNCHANGED overlap,
         overlap \in Nat, TotalCost \in Nat, TotalCost' \in Nat,
         TotalCost' <= TotalCost + EstimatedCost(calls[c].request) + DearestExcess
  PROVE  SpendOK' /\ Cardinality(InFlight') = Cardinality(InFlight) - 1
         /\ calls' \in [Callers -> LlmCalls]
<1> DEFINE n == Cardinality(InFlight)
           est == EstimatedCost(calls[c].request)
<1>1. c \in Callers /\ Idle(result) \in LlmCalls BY DEF InFlight, Idle, LlmCalls
<1>2. calls' \in [Callers -> LlmCalls] /\ calls'[c].phase = "idle"
      /\ \A d \in Callers \ {c} : calls'[d] = calls[d]
  BY <1>1 DEF Idle
<1>3. InFlight' = InFlight \ {c} BY <1>1, <1>2 DEF InFlight
<1>4. n \in Nat /\ Cardinality(InFlight') = n - 1
  BY <1>3, InFlightFinite, FS_RemoveElement
<1>5. /\ DearestCharge \in Nat /\ DearestExcess \in Nat /\ est \in Nat
      /\ est + DearestExcess <= DearestCharge
  BY ChargesType
<1>6. Limit' = Limit /\ Limit \in Int BY LimitType DEF Limit
<1>7. /\ Charges(n) \in Int /\ Charges(n - 1) = Charges(n) - DearestCharge
      /\ Charges(n - 1 - 1) = Charges(n - 1) - DearestCharge
  <2>1. n \in Int /\ n - 1 \in Int BY <1>4
  <2> HIDE DEF n
  <2> QED BY <2>1, ChargesCount
<1> HIDE DEF n, est
<1>8. SpendOK'
  <2>1. SUFFICES ASSUME overlap > 0 PROVE SpendOK' BY DEF SpendOK
  <2>2. CASE TotalCost + Charges(n) <= Limit
    <3>1. TotalCost' + Charges(n - 1) <= Limit BY <2>2, <1>5, <1>6, <1>7 DEF est
    <3> QED BY <3>1, <1>4, <1>6 DEF SpendOK
  <2>3. ASSUME NEW d \in InFlight,
               TotalCost + EstimatedCost(calls[d].request) + DearestExcess + Charges(n - 1) <= Limit
        PROVE  SpendOK'
    <3>1. CASE d = c
      <4>1. TotalCost' + Charges(n - 1) <= Limit BY <2>3, <3>1, <1>5, <1>6, <1>7 DEF est
      <4> QED BY <4>1, <1>4, <1>6 DEF SpendOK
    <3>2. CASE d # c
      <4>1. d \in InFlight' /\ calls'[d] = calls[d] BY <3>2, <1>2, <1>3 DEF InFlight
      <4>2. EstimatedCost(calls[d].request) \in Nat BY ChargesType
      <4>3. TotalCost' + EstimatedCost(calls[d].request) + DearestExcess + Charges(n - 1 - 1) <= Limit
        BY <2>3, <4>2, <1>5, <1>6, <1>7 DEF est
      <4>4. EstimatedCost(calls[d].request)' = EstimatedCost(calls[d].request) BY <4>1
      <4>5. \E e \in InFlight' : TotalCost' + EstimatedCost(calls'[e].request) + DearestExcess
                                  + Charges(Cardinality(InFlight') - 1) <= Limit'
        BY <4>1, <4>3, <1>4, <1>6
      <4> QED BY <4>5 DEF SpendOK
    <3> QED BY <3>1, <3>2
  <2> QED BY <2>1, <2>2, <2>3 DEF SpendOK, n
<1> QED BY <1>2, <1>4, <1>8 DEF n

\* The calls in flight and what was spent are the same.
LEMMA SpendStays ==
  ASSUME SpendOK, InFlight' = InFlight, UNCHANGED overlap, TotalCost' = TotalCost,
         \A d \in InFlight : calls'[d].request = calls[d].request
  PROVE  SpendOK'
<1>1. Limit' = Limit BY DEF Limit
<1>2. Cardinality(InFlight') = Cardinality(InFlight) OBVIOUS
<1>3. SUFFICES ASSUME overlap > 0 PROVE SpendOK' BY DEF SpendOK
<1>4. CASE TotalCost + Charges(Cardinality(InFlight)) <= Limit
  BY <1>1, <1>2, <1>4 DEF SpendOK
<1>5. ASSUME NEW d \in InFlight,
             TotalCost + EstimatedCost(calls[d].request) + DearestExcess
                + Charges(Cardinality(InFlight) - 1) <= Limit
      PROVE  SpendOK'
  <2>1. EstimatedCost(calls'[d].request) = EstimatedCost(calls[d].request) BY DEF EstimatedCost
  <2>2. \E e \in InFlight' : TotalCost' + EstimatedCost(calls'[e].request) + DearestExcess
                              + Charges(Cardinality(InFlight') - 1) <= Limit'
    BY <1>1, <1>2, <1>5, <2>1
  <2> QED BY <2>2 DEF SpendOK
<1> QED BY <1>3, <1>4, <1>5 DEF SpendOK

\* A call that passes check_budget: its estimate fits whatever else is in flight.
LEMMA CallStarts ==
  ASSUME calls \in [Callers -> LlmCalls], NEW c \in Callers, calls[c].phase = "idle",
         NEW q \in Prompts, WithinBudget(EstimatedCost(q)), TotalCost \in Nat, TotalCost' = TotalCost,
         overlap \in 0 .. Cardinality(Callers), overlap' = Max({overlap, Cardinality(InFlight) + 1}),
         DOMAIN calls' = Callers, calls'[c].phase # "idle", calls'[c].request = q,
         \A d \in Callers \ {c} : calls'[d] = calls[d]
  PROVE  SpendOK' /\ Cardinality(InFlight') = Cardinality(InFlight) + 1
         /\ overlap' \in 0 .. Cardinality(Callers)
<1> DEFINE n == Cardinality(InFlight)
<1>1. InFlight' = InFlight \cup {c} /\ c \notin InFlight BY DEF InFlight
<1>2. n \in Nat /\ Cardinality(InFlight') = n + 1 BY <1>1, InFlightFinite, FS_AddElement
<1>3. Cardinality(InFlight') <= Cardinality(Callers) /\ Cardinality(Callers) \in Nat
  <2>1. InFlight' \subseteq Callers BY DEF InFlight
  <2> QED BY <2>1, LlmAssumption, FS_Subset, FS_CardinalityType
<1>4. overlap' \in 0 .. Cardinality(Callers) /\ n + 1 <= overlap'
  <2>1. overlap \in Int /\ n + 1 \in Int BY <1>2, <1>3
  <2>2. overlap' = IF overlap >= n + 1 THEN overlap ELSE n + 1 BY <2>1, MaxOfTwo
  <2> HIDE DEF n
  <2> QED BY <2>2, <1>2, <1>3
<1> HIDE DEF n
<1>5. Charges(n) <= Charges(overlap' - 1) /\ Charges(n) \in Int /\ Charges(overlap' - 1) \in Int
  <2>1. n \in Nat /\ overlap' - 1 \in Nat /\ n <= overlap' - 1 /\ n \in Int /\ overlap' - 1 \in Int
    BY <1>2, <1>3, <1>4
  <2> QED BY <2>1, MoreCharges, ChargesCount
<1>6. EstimatedCost(q) \in Nat /\ DearestExcess \in Nat /\ MaxBudget \in Nat
  BY ChargesType, LlmAssumption
<1>7. TotalCost + EstimatedCost(q) <= MaxBudget BY DEF WithinBudget
<1>8. TotalCost' + EstimatedCost(q) + DearestExcess + Charges(n) <= MaxBudget + Charges(overlap' - 1) + DearestExcess
  BY <1>5, <1>6, <1>7
<1>9. Cardinality(InFlight') - 1 = n BY <1>2
<1>10. c \in InFlight' /\ EstimatedCost(calls'[c].request) = EstimatedCost(q) BY <1>1
<1>11. \E e \in InFlight' : TotalCost' + EstimatedCost(calls'[e].request) + DearestExcess
                              + Charges(Cardinality(InFlight') - 1) <= Limit'
  BY <1>8, <1>9, <1>10 DEF Limit
<1>12. SpendOK' BY <1>11 DEF SpendOK
<1> QED BY <1>2, <1>4, <1>12 DEF n

-----------------------------------------------------------------------------
LEMMA RequestsAreTyped ==
  ASSUME calls \in [Callers -> LlmCalls]
  PROVE  \A c \in InFlight : calls[c].request \in Prompts
BY DEF InFlight, LlmCalls

LEMMA LlmStart == LlmInit => LlmInv
<1> SUFFICES ASSUME LlmInit PROVE LlmInv OBVIOUS
<1>1. calls \in [Callers -> LlmCalls] BY DEF LlmInit, Idle, LlmCalls, Results
<1>2. BucketOK
  <2>1. MaxTokens * Minute \in Nat /\ MaxRequests * Minute \in Nat BY LlmAssumption, ProductType
  <2>2. 0 \in 0 .. Minute BY LlmAssumption
  <2> QED BY <2>1, <2>2 DEF LlmInit, FullBucket, BucketOK
<1>3. DOMAIN tracker = {} BY DEF LlmInit
<1>4. TotalCost = 0 /\ AllRequests = 0
  BY <1>3 DEF TotalCost, CostUnder, AllRequests, RequestsUnder
<1>5. TrackerOK BY <1>3, <1>4 DEF TrackerOK, LlmInit
<1>6. InFlight = {} BY DEF LlmInit, InFlight, Idle
<1>7. Cardinality(InFlight) = 0 BY <1>6, FS_EmptySet
<1>8. StartsOK
  BY <1>4, <1>7, LlmAssumption, InFlightFinite DEF StartsOK, LlmInit
<1> QED BY <1>1, <1>2, <1>5, <1>8 DEF LlmInv, SpendOK, LlmInit

\* A call in flight that stays in flight.
LEMMA StaysInFlight ==
  ASSUME LlmInv, NEW c \in InFlight, NEW next \in LlmCalls, next.phase # "idle",
         next.request = calls[c].request, calls' = [calls EXCEPT ![c] = next],
         UNCHANGED <<tracker, started, charged, overlap>>, BucketOK', warned' \subseteq {75, 90}
  PROVE  LlmInv'
<1>1. c \in Callers /\ calls \in [Callers -> LlmCalls] BY DEF InFlight, LlmInv
<1>2. calls' \in [Callers -> LlmCalls] /\ calls'[c] = next /\ \A d \in Callers \ {c} : calls'[d] = calls[d]
  BY <1>1
<1>3. InFlight' = InFlight BY <1>1, <1>2 DEF InFlight
<1>4. TrackerOK' /\ TotalCost' = TotalCost /\ AllRequests' = AllRequests BY TrackerStays DEF LlmInv
<1>5. \A d \in InFlight : calls'[d].request = calls[d].request BY <1>2 DEF InFlight
<1>6. SpendOK' BY <1>3, <1>4, <1>5, SpendStays DEF LlmInv
<1>7. StartsOK' BY <1>3, <1>4 DEF LlmInv, StartsOK
<1> QED BY <1>2, <1>4, <1>6, <1>7 DEF LlmInv

\* A call in flight that ends without an answer.
LEMMA EndsUnanswered ==
  ASSUME LlmInv, NEW c \in InFlight, NEW result \in Results, calls' = [calls EXCEPT ![c] = Idle(result)],
         UNCHANGED <<bucket, tracker, warned, started, charged, overlap>>
  PROVE  LlmInv'
<1>1. TrackerOK' /\ TotalCost' = TotalCost /\ AllRequests' = AllRequests BY TrackerStays DEF LlmInv
<1>2. calls \in [Callers -> LlmCalls] BY DEF LlmInv
<1>3. \A d \in InFlight : calls[d].request \in Prompts BY <1>2, RequestsAreTyped
<1>4. TotalCost \in Nat /\ AllRequests \in Nat BY TotalType, RequestsType DEF LlmInv
<1>5. overlap \in Nat BY InFlightFinite DEF LlmInv, StartsOK
<1>6. TotalCost' <= TotalCost + EstimatedCost(calls[c].request) + DearestExcess
  <2>1. EstimatedCost(calls[c].request) \in Nat /\ DearestExcess \in Nat BY <1>3, ChargesType
  <2> QED BY <2>1, <1>1, <1>4
<1>7. SpendOK' /\ Cardinality(InFlight') = Cardinality(InFlight) - 1 /\ calls' \in [Callers -> LlmCalls]
  BY <1>1, <1>2, <1>3, <1>4, <1>5, <1>6, CallEnds DEF LlmInv
<1>8. StartsOK'
  <2>1. Cardinality(InFlight) \in Nat BY InFlightFinite
  <2> QED BY <2>1, <1>1, <1>4, <1>7, InFlightFinite DEF LlmInv, StartsOK
<1>9. BucketOK' BY DEF LlmInv, BucketOK
<1> QED BY <1>1, <1>7, <1>8, <1>9 DEF LlmInv

LEMMA AnswerKeeps ==
  ASSUME LlmInv, NEW c \in Callers, NEW u \in Usages(calls[c].request),
         NEW content \in {"text", "tools", "many_tools", "empty"}, Answer(c, u, content)
  PROVE  LlmInv'
<1> DEFINE q == calls[c].request
           result == CASE content = "empty" -> "response"
                       [] content = "many_tools" -> "budget"
                       [] OTHER -> "answer"
<1>1. c \in InFlight BY DEF Answer, InFlight
<1>2. calls \in [Callers -> LlmCalls] BY DEF LlmInv
<1>3. \A d \in InFlight : calls[d].request \in Prompts BY <1>2, RequestsAreTyped
<1>4. q \in Prompts /\ q.model \in Models BY <1>1, <1>3, PromptType
<1>5. /\ u.input \in Nat /\ u.output \in Nat /\ CostOf(q.model, u.input, u.output) \in Nat
      /\ CostOf(q.model, u.input, u.output) <= EstimatedCost(q) + DearestExcess
  BY <1>4, ChargeIsBounded
<1>6. TrackerOK' /\ TotalCost' = TotalCost + CostOf(q.model, u.input, u.output) /\ AllRequests' = AllRequests + 1
  <2>1. tracker' = RecordUsage(q.model, u.input, u.output)
        /\ charged' = charged + CostOf(q.model, u.input, u.output)
    BY DEF Answer, ParseResponse
  <2> HIDE DEF q
  <2> QED BY <2>1, <1>4, <1>5, RecordKeeps DEF LlmInv
<1>7. TotalCost \in Nat /\ AllRequests \in Nat BY TotalType, RequestsType DEF LlmInv
<1>8. overlap \in Nat BY InFlightFinite DEF LlmInv, StartsOK
<1>9. TotalCost' \in Nat /\ TotalCost' <= TotalCost + EstimatedCost(q) + DearestExcess
  <2>1. EstimatedCost(q) \in Nat /\ DearestExcess \in Nat BY <1>4, ChargesType
  <2> HIDE DEF q
  <2> QED BY <2>1, <1>5, <1>6, <1>7
<1>10. result \in Results BY DEF Results
<1>11. calls' = [calls EXCEPT ![c] = Idle(result)] BY DEF Answer, ParseResponse
<1>12. SpendOK' /\ Cardinality(InFlight') = Cardinality(InFlight) - 1 /\ calls' \in [Callers -> LlmCalls]
  <2>1. UNCHANGED overlap /\ SpendOK BY DEF Answer, LlmInv
  <2> HIDE DEF result
  <2> QED BY <2>1, <1>1, <1>2, <1>3, <1>7, <1>8, <1>9, <1>10, <1>11, CallEnds
<1>13. StartsOK'
  <2>1. Cardinality(InFlight) \in Nat BY InFlightFinite
  <2>2. UNCHANGED <<started, overlap>> BY DEF Answer
  <2> QED BY <2>1, <2>2, <1>6, <1>7, <1>12, InFlightFinite DEF LlmInv, StartsOK
<1>14. BucketOK' /\ warned' \subseteq {75, 90} BY DEF LlmInv, BucketOK, Answer
<1> QED BY <1>6, <1>12, <1>13, <1>14 DEF LlmInv

LEMMA GenerateKeeps ==
  ASSUME LlmInv, NEW c \in Callers, NEW q \in Prompts, GenerateCall(c, q)
  PROVE  LlmInv'
<1>1. calls \in [Callers -> LlmCalls] /\ calls[c].phase = "idle" BY DEF LlmInv, GenerateCall
<1>2. TrackerOK' /\ TotalCost' = TotalCost /\ AllRequests' = AllRequests
  BY TrackerStays DEF LlmInv, GenerateCall
<1>3. TotalCost \in Nat /\ AllRequests \in Nat /\ Cardinality(InFlight) \in Nat
  BY TotalType, RequestsType, InFlightFinite DEF LlmInv
<1>4. started' = started + 1 /\ started < MaxCalls /\ started \in 0 .. MaxCalls
      /\ AllRequests + Cardinality(InFlight) <= started
      /\ overlap \in 0 .. Cardinality(Callers)
  BY DEF GenerateCall, LlmInv, StartsOK
<1>5. CASE WithinBudget(EstimatedCost(q))
  <2>1. warned' = WarnThresholds /\ Acquire(c, q) /\ overlap' = Max({overlap, Cardinality(InFlight) + 1})
    BY <1>5 DEF GenerateCall
  <2>2. /\ BucketOK' /\ calls' \in [Callers -> LlmCalls]
        /\ calls'[c].phase # "idle" /\ calls'[c].request = q
        /\ \A d \in Callers \ {c} : calls'[d] = calls[d]
    BY <2>1, AcquireKeeps DEF LlmInv
  <2>3. SpendOK' /\ Cardinality(InFlight') = Cardinality(InFlight) + 1
        /\ overlap' \in 0 .. Cardinality(Callers)
    BY <2>1, <2>2, <1>1, <1>2, <1>3, <1>4, <1>5, CallStarts
  <2>4. StartsOK' BY <2>3, <1>2, <1>3, <1>4, LlmAssumption DEF StartsOK
  <2>5. warned' \subseteq {75, 90} BY <2>1 DEF WarnThresholds, LlmInv
  <2> QED BY <2>2, <2>3, <2>4, <2>5, <1>2 DEF LlmInv
<1>6. CASE ~WithinBudget(EstimatedCost(q))
  <2>1. calls' = [calls EXCEPT ![c] = Idle("budget")] /\ UNCHANGED <<bucket, warned, overlap>>
    BY <1>6 DEF GenerateCall
  <2>2. Idle("budget") \in LlmCalls /\ Idle("budget").phase = "idle" BY DEF Idle, LlmCalls, Results
  <2>3. calls' \in [Callers -> LlmCalls] /\ calls'[c].phase = "idle"
        /\ \A d \in Callers \ {c} : calls'[d] = calls[d]
    BY <2>1, <2>2, <1>1
  <2>4. InFlight' = InFlight BY <2>3, <1>1 DEF InFlight
  <2>5. SpendOK'
    <3>1. \A d \in InFlight : calls'[d].request = calls[d].request BY <2>3, <1>1 DEF InFlight
    <3> QED BY <3>1, <2>1, <2>4, <1>2, SpendStays DEF LlmInv
  <2>6. StartsOK' BY <2>1, <2>4, <1>2, <1>3, <1>4, LlmAssumption DEF StartsOK
  <2>7. BucketOK' /\ warned' \subseteq {75, 90} BY <2>1 DEF LlmInv, BucketOK
  <2> QED BY <2>3, <2>5, <2>6, <2>7, <1>2 DEF LlmInv
<1> QED BY <1>5, <1>6

LEMMA AcquireAgainKeeps ==
  ASSUME LlmInv, NEW c \in Callers, AcquireAgain(c)
  PROVE  LlmInv'
<1>1. c \in InFlight BY DEF AcquireAgain, InFlight
<1>2. calls \in [Callers -> LlmCalls] /\ BucketOK /\ UNCHANGED <<tracker, warned, started, charged, overlap>>
  BY DEF LlmInv, AcquireAgain
<1>3. calls[c].request \in Prompts BY <1>1, <1>2, RequestsAreTyped
<1>4. /\ BucketOK' /\ calls' \in [Callers -> LlmCalls]
      /\ calls'[c].phase # "idle" /\ calls'[c].request = calls[c].request
      /\ \A d \in Callers \ {c} : calls'[d] = calls[d]
  BY <1>2, <1>3, AcquireKeeps DEF AcquireAgain
<1>5. calls' = [calls EXCEPT ![c] = calls'[c]] /\ calls'[c] \in LlmCalls BY <1>2, <1>4
<1>6. warned' \subseteq {75, 90} BY <1>2 DEF LlmInv
<1> QED BY <1>1, <1>2, <1>4, <1>5, <1>6, StaysInFlight

LEMMA ErrorKeeps ==
  ASSUME LlmInv, NEW c \in Callers, NEW kind \in {"rate", "server", "connection", "client"}, ApiError(c, kind)
  PROVE  LlmInv'
<1> DEFINE call == calls[c]
<1>1. c \in InFlight /\ call.phase = "send" BY DEF ApiError, InFlight
<1>2. calls \in [Callers -> LlmCalls] BY DEF LlmInv
<1>3. call \in [phase : {"send"}, request : Prompts, attempt : 1 .. MaxAttempts]
  BY <1>1, <1>2 DEF LlmCalls
<1>4. CASE kind # "client" /\ call.attempt < MaxAttempts
  <2>1. calls' = [calls EXCEPT ![c] = [call EXCEPT !.phase = "backoff"]]
    BY <1>4, <1>2 DEF ApiError, Fails
  <2>2. [call EXCEPT !.phase = "backoff"] \in LlmCalls /\ [call EXCEPT !.phase = "backoff"].phase = "backoff"
        /\ [call EXCEPT !.phase = "backoff"].request = call.request
    <3>1. call.request \in Prompts /\ call.attempt \in 1 .. MaxAttempts - 1 BY <1>3, <1>4, LlmAssumption
    <3>2. [call EXCEPT !.phase = "backoff"] = [phase |-> "backoff", request |-> call.request, attempt |-> call.attempt]
      BY <1>3
    <3> QED BY <3>1, <3>2 DEF LlmCalls
  <2>3. BucketOK' /\ warned' \subseteq {75, 90} BY DEF ApiError, LlmInv, BucketOK
  <2> DEFINE next == [call EXCEPT !.phase = "backoff"]
  <2>4. next \in LlmCalls /\ next.phase # "idle" /\ next.request = calls[c].request
        /\ calls' = [calls EXCEPT ![c] = next]
    BY <2>1, <2>2
  <2> HIDE DEF next
  <2> QED BY <2>3, <2>4, <1>1, StaysInFlight DEF ApiError
<1>5. CASE ~(kind # "client" /\ call.attempt < MaxAttempts)
  <2> DEFINE result == IF kind = "rate" THEN "rate" ELSE "error"
  <2>1. calls' = [calls EXCEPT ![c] = Idle(result)] BY <1>5, <1>2 DEF ApiError, Fails
  <2>2. result \in Results BY DEF Results
  <2> HIDE DEF result
  <2> QED BY <2>1, <2>2, <1>1, EndsUnanswered DEF ApiError
<1> QED BY <1>4, <1>5

LEMMA RetryKeeps ==
  ASSUME LlmInv, NEW c \in Callers, RetryCall(c)
  PROVE  LlmInv'
<1> DEFINE call == calls[c]
           next == [call EXCEPT !.phase = "send", !.attempt = @ + 1]
<1>1. c \in InFlight /\ call.phase = "backoff" BY DEF RetryCall, InFlight
<1>2. calls \in [Callers -> LlmCalls] BY DEF LlmInv
<1>3. call \in [phase : {"backoff"}, request : Prompts, attempt : 1 .. MaxAttempts - 1]
  BY <1>1, <1>2 DEF LlmCalls
<1>4. next \in LlmCalls /\ next.phase = "send" /\ next.request = call.request
  <2>1. call.request \in Prompts /\ call.attempt + 1 \in 1 .. MaxAttempts BY <1>3, LlmAssumption
  <2>2. next = [phase |-> "send", request |-> call.request, attempt |-> call.attempt + 1]
    <3>1. DOMAIN call = {"phase", "request", "attempt"} BY <1>3
    <3>2. DOMAIN next = {"phase", "request", "attempt"} /\ next.phase = "send"
          /\ next.request = call.request /\ next.attempt = call.attempt + 1
      BY <3>1
    <3>3. next = [call EXCEPT !.phase = "send", !.attempt = call.attempt + 1] OBVIOUS
    <3> HIDE DEF next
    <3> QED BY <3>1, <3>2, <3>3
  <2> HIDE DEF next, call
  <2> QED BY <2>1, <2>2 DEF LlmCalls
<1>5. BucketOK' BY DEF RetryCall, LlmInv, BucketOK
<1>6. CASE WithinBudget(0)
  <2>1. calls' = [calls EXCEPT ![c] = next] BY <1>6 DEF RetryCall
  <2>2. warned' \subseteq {75, 90} BY <1>6 DEF RetryCall, WarnThresholds, LlmInv
  <2>3. UNCHANGED <<tracker, started, charged, overlap>> BY DEF RetryCall
  <2> HIDE DEF next
  <2> QED BY <2>1, <2>2, <2>3, <1>1, <1>4, <1>5, StaysInFlight
<1>7. CASE ~WithinBudget(0)
  <2>1. calls' = [calls EXCEPT ![c] = Idle("budget")] /\ UNCHANGED <<bucket, tracker, warned, started, charged, overlap>>
    BY <1>7 DEF RetryCall
  <2>2. "budget" \in Results BY DEF Results
  <2> QED BY <2>1, <2>2, <1>1, EndsUnanswered
<1> QED BY <1>6, <1>7

LEMMA TickKeeps ==
  ASSUME LlmInv, Tick
  PROVE  LlmInv'
<1>1. calls \in [Callers -> LlmCalls] BY DEF LlmInv
<1>2. ASSUME NEW d \in Callers
      PROVE  /\ calls'[d] \in LlmCalls /\ calls'[d].phase = calls[d].phase
             /\ calls[d].phase # "idle" => calls'[d].request = calls[d].request
  <2> DEFINE call == calls[d]
  <2>1. CASE call.phase = "wait" /\ call.sleep > 0
    <3>1. call \in [phase : {"wait"}, request : Prompts, sleep : Nat] BY <2>1, <1>1 DEF LlmCalls
    <3>2. calls'[d] = [call EXCEPT !.sleep = @ - 1] BY <2>1 DEF Tick
    <3>3. calls'[d] = [phase |-> "wait", request |-> call.request, sleep |-> call.sleep - 1]
          /\ call.sleep - 1 \in Nat
      BY <3>1, <3>2, <2>1
    <3> QED BY <3>1, <3>3, <2>1 DEF LlmCalls
  <2>2. CASE ~(call.phase = "wait" /\ call.sleep > 0)
    <3>1. calls'[d] = calls[d] BY <2>2 DEF Tick
    <3> QED BY <3>1, <1>1
  <2> QED BY <2>1, <2>2
<1>3. calls' \in [Callers -> LlmCalls] BY <1>2 DEF Tick
<1>4. InFlight' = InFlight BY <1>2 DEF InFlight
<1>5. TrackerOK' /\ TotalCost' = TotalCost /\ AllRequests' = AllRequests BY TrackerStays DEF LlmInv, Tick
<1>6. SpendOK'
  <2>1. \A d \in InFlight : calls'[d].request = calls[d].request BY <1>2 DEF InFlight
  <2> QED BY <2>1, <1>4, <1>5, SpendStays DEF LlmInv, Tick
<1>7. StartsOK' BY <1>4, <1>5 DEF LlmInv, StartsOK, Tick
<1>8. BucketOK'
  <2>1. bucket.elapsed \in 0 .. Minute BY DEF LlmInv, BucketOK
  <2>2. bucket' = [bucket EXCEPT !.elapsed = Min({@ + 1, Minute})] BY DEF Tick
  <2>3. Min({bucket.elapsed + 1, Minute}) \in 0 .. Minute
    <3>1. bucket.elapsed + 1 \in Nat /\ Minute \in Nat BY <2>1, LlmAssumption
    <3>2. Min({bucket.elapsed + 1, Minute}) = IF bucket.elapsed + 1 <= Minute THEN bucket.elapsed + 1 ELSE Minute
      BY <3>1, MinOfTwo
    <3> QED BY <3>1, <3>2
  <2> QED BY <2>2, <2>3 DEF LlmInv, BucketOK
<1>9. warned' \subseteq {75, 90} BY DEF Tick, LlmInv
<1> QED BY <1>3, <1>5, <1>6, <1>7, <1>8, <1>9 DEF LlmInv

LEMMA LlmStep ==
  ASSUME LlmInv, [LlmNext]_llmVars
  PROVE  LlmInv'
<1>1. CASE Tick BY <1>1, TickKeeps
<1>2. ASSUME NEW c \in Callers, CallerStep(c) PROVE LlmInv'
  <2>1. CASE AcquireAgain(c) BY <2>1, AcquireAgainKeeps
  <2>2. ASSUME NEW u \in Usages(calls[c].request), NEW content \in {"text", "tools", "many_tools", "empty"},
               Answer(c, u, content)
        PROVE  LlmInv'
    BY <2>2, AnswerKeeps
  <2>3. ASSUME NEW kind \in {"rate", "server", "connection", "client"}, ApiError(c, kind) PROVE LlmInv'
    BY <2>3, ErrorKeeps
  <2>4. CASE RetryCall(c) BY <2>4, RetryKeeps
  <2> QED BY <1>2, <2>1, <2>2, <2>3, <2>4 DEF CallerStep
<1>3. ASSUME NEW c \in Callers, NEW q \in Prompts, GenerateCall(c, q) PROVE LlmInv'
  BY <1>3, GenerateKeeps
<1>4. CASE UNCHANGED llmVars
  <2>1. UNCHANGED <<calls, bucket, tracker, warned, started, charged, overlap>> BY <1>4 DEF llmVars
  <2>2. TrackerOK' /\ TotalCost' = TotalCost /\ AllRequests' = AllRequests BY <2>1, TrackerStays DEF LlmInv
  <2>3. InFlight' = InFlight BY <2>1 DEF InFlight
  <2>4. SpendOK' BY <2>1, <2>2, <2>3, SpendStays DEF LlmInv
  <2>5. StartsOK' /\ BucketOK' BY <2>1, <2>2, <2>3 DEF LlmInv, StartsOK, BucketOK
  <2> QED BY <2>1, <2>2, <2>4, <2>5 DEF LlmInv
<1> QED BY <1>1, <1>2, <1>3, <1>4 DEF LlmNext

\* No call in flight is owed less than nothing: what was spent stays under the limit.
LEMMA SpendIsLimited == LlmInv => OverspendIsBounded
<1> SUFFICES ASSUME LlmInv, overlap > 0 PROVE TotalCost <= Limit
  BY DEF OverspendIsBounded, Limit, Charges, DearestCharge
<1>1. TotalCost \in Nat BY TotalType DEF LlmInv
<1>2. Cardinality(InFlight) \in Nat BY InFlightFinite
<1>3. Limit \in Int BY LimitType, InFlightFinite DEF LlmInv, StartsOK
<1>4. CASE TotalCost + Charges(Cardinality(InFlight)) <= Limit
  <2>1. Charges(Cardinality(InFlight)) \in Nat
    <3>1. Cardinality(InFlight) \in Int /\ Cardinality(InFlight) >= 0 BY <1>2
    <3> QED BY <3>1, ChargesCount
  <2> QED BY <2>1, <1>1, <1>3, <1>4
<1>5. ASSUME NEW c \in InFlight,
              TotalCost + EstimatedCost(calls[c].request) + DearestExcess
                + Charges(Cardinality(InFlight) - 1) <= Limit
      PROVE  TotalCost <= Limit
  <2>1. Cardinality(InFlight) # 0 BY InFlightFinite, FS_EmptySet
  <2>2. Charges(Cardinality(InFlight) - 1) \in Nat
    <3> DEFINE n == Cardinality(InFlight) - 1
    <3>1. n \in Int /\ n >= 0 BY <1>2, <2>1
    <3> HIDE DEF n
    <3>2. Charges(n) \in Nat BY <3>1, ChargesCount
    <3> QED BY <3>2 DEF n
  <2>3. EstimatedCost(calls[c].request) \in Nat /\ DearestExcess \in Nat
    BY RequestsAreTyped, ChargesType DEF LlmInv
  <2> QED BY <2>2, <2>3, <1>1, <1>3, <1>5
<1> QED BY <1>4, <1>5 DEF LlmInv, SpendOK

LEMMA LlmTyped == LlmInv => LlmTypeOK
<1> SUFFICES ASSUME LlmInv PROVE LlmTypeOK OBVIOUS
<1>1. ASSUME NEW c \in Callers
      PROVE  CASE calls[c].phase = "idle" -> calls[c].result \in {"none", "answer", "budget", "rate", "error", "response"}
          [] calls[c].phase = "wait" -> calls[c].request \in Prompts /\ calls[c].sleep \in Nat
          [] OTHER -> calls[c].request \in Prompts /\ calls[c].attempt \in 1..MaxAttempts
  <2>1. calls[c] \in LlmCalls BY DEF LlmInv
  <2>2. CASE calls[c] \in [phase : {"idle"}, result : Results] BY <2>2 DEF Results
  <2>3. CASE calls[c] \in [phase : {"wait"}, request : Prompts, sleep : Nat] BY <2>3
  <2>4. CASE calls[c] \in [phase : {"send"}, request : Prompts, attempt : 1 .. MaxAttempts] BY <2>4
  <2>5. CASE calls[c] \in [phase : {"backoff"}, request : Prompts, attempt : 1 .. MaxAttempts - 1]
    BY <2>5, LlmAssumption
  <2> QED BY <2>1, <2>2, <2>3, <2>4, <2>5 DEF LlmCalls
<1>2. ASSUME NEW model \in DOMAIN tracker
      PROVE  tracker[model] \in [input : Nat, output : Nat, cost : Nat, requests : 1..MaxCalls]
  <2>1. model \in Models /\ tracker[model] \in [input : Nat, output : Nat, cost : Nat, requests : Nat \ {0}]
    BY DEF LlmInv, TrackerOK
  <2>2. RequestsUnder(model) = tracker[model].requests BY DEF RequestsUnder
  <2>3. \A m : RequestsUnder(m) \in Nat BY RequestsType DEF LlmInv
  <2>4. RequestsUnder(model) <= AllRequests BY <2>1, <2>3 DEF AllRequests, Models
  <2>5. AllRequests <= MaxCalls
    <3>1. Cardinality(InFlight) \in Nat /\ AllRequests \in Nat BY InFlightFinite, RequestsType DEF LlmInv
    <3> QED BY <3>1, LlmAssumption DEF LlmInv, StartsOK
  <2>6. AllRequests \in Nat BY RequestsType DEF LlmInv
  <2>7. tracker[model].requests \in 1 .. MaxCalls BY <2>1, <2>2, <2>4, <2>5, <2>6, LlmAssumption
  <2> QED BY <2>1, <2>7
<1> QED BY <1>1, <1>2 DEF LlmTypeOK, LlmInv, BucketOK, TrackerOK, StartsOK

\* For any number of concurrent calls, prices and budgets: no bucket of the rate limiter is
\* overdrawn, the budget is passed by no more than the calls in flight may still cost, and each
\* answer is charged once to the tracker (client.py, rate_limiter.py, cost_tracker.py).
THEOREM SpendAccounted == LlmSpec => []SpendIsAccounted
<1>1. LlmInit => LlmInv BY LlmStart
<1>2. LlmInv /\ [LlmNext]_llmVars => LlmInv' BY LlmStep
<1>3. LlmInv => SpendIsAccounted
  BY SpendIsLimited, LlmTyped DEF SpendIsAccounted, AnswersAreAccounted, LlmInv, TrackerOK
<1> QED BY <1>1, <1>2, <1>3, PTL DEF LlmSpec

-----------------------------------------------------------------------------
(*****************************************************************************)
(* Model router                                                              *)
(*                                                                           *)
(* Scores are sums of shares that grow with what they measure; CollectorInv  *)
(* keeps the costs as sums over the tiers, and RecordOK says what the record *)
(* of a task that failed knows of its history.                               *)
(*****************************************************************************)

LEMMA SmallerOfTwo ==
  ASSUME NEW a \in Int, NEW b \in Int
  PROVE  Min({a, b}) = IF a <= b THEN a ELSE b
BY DEF Min

-----------------------------------------------------------------------------
\* ComplexityScorer: each factor grows with what it measures, and so does the score.

AtMost(x, b) == x \in Nat /\ x <= b

TokenShare(estimate) == (estimate * 10000) \div 100000

LEMMA TokensGrow ==
  ASSUME NEW x \in Int, NEW y \in Int, x <= y
  PROVE  AtMost(TokenFactor(x), 10000) /\ AtMost(TokenFactor(y), 10000) /\ TokenFactor(x) <= TokenFactor(y)
<1>1. ASSUME NEW z \in Int, 0 < z, z < 100000
      PROVE  AtMost(TokenShare(z), 10000)
  BY SMT, <1>1 DEF TokenShare, AtMost
<1>2. ASSUME 0 < x, y < 100000 PROVE TokenShare(x) <= TokenShare(y)
  BY SMT, <1>2 DEF TokenShare, AtMost
<1>3. ASSUME NEW z \in Int
      PROVE  /\ z <= 0 => TokenFactor(z) = 0
             /\ z >= 100000 => TokenFactor(z) = 10000
             /\ 0 < z /\ z < 100000 => TokenFactor(z) = TokenShare(z)
  <2>1. ASSUME z <= 0 PROVE TokenFactor(z) = 0 BY SMT, <2>1 DEF TokenFactor, TokenCap, AtMost
  <2>2. ASSUME z >= 100000 PROVE TokenFactor(z) = 10000 BY SMT, <2>2 DEF TokenFactor, TokenCap, AtMost
  <2>3. ASSUME 0 < z, z < 100000 PROVE TokenFactor(z) = TokenShare(z)
    BY SMT, <2>3 DEF TokenFactor, TokenCap, TokenShare, AtMost
  <2> QED BY SMT, <2>1, <2>2, <2>3 DEF AtMost
<1>4. \A z \in Int : AtMost(TokenFactor(z), 10000)
  <2> SUFFICES ASSUME NEW z \in Int PROVE AtMost(TokenFactor(z), 10000) OBVIOUS
  <2>1. z <= 0 \/ z >= 100000 \/ (0 < z /\ z < 100000) BY SMT DEF AtMost
  <2> QED BY SMT, <2>1, <1>1, <1>3 DEF AtMost
<1>5. CASE x <= 0
  <2>1. TokenFactor(x) = 0 BY SMT, <1>3, <1>5 DEF AtMost
  <2> QED BY SMT, <2>1, <1>4 DEF AtMost
<1>6. CASE y >= 100000
  <2>1. TokenFactor(y) = 10000 BY SMT, <1>3, <1>6 DEF AtMost
  <2> QED BY SMT, <2>1, <1>4 DEF AtMost
<1>7. CASE 0 < x /\ y < 100000
  <2>1. TokenFactor(x) = TokenShare(x) /\ TokenFactor(y) = TokenShare(y) BY SMT, <1>3, <1>7 DEF AtMost
  <2> QED BY SMT, <2>1, <1>2, <1>4, <1>7 DEF AtMost
<1> QED BY SMT, <1>5, <1>6, <1>7 DEF AtMost

LEMMA DescriptionsGrow ==
  ASSUME NEW x \in Nat, NEW y \in Nat, x <= y
  PROVE  AtMost(DescriptionFactor(x), 10000) /\ AtMost(DescriptionFactor(y), 10000)
         /\ DescriptionFactor(x) <= DescriptionFactor(y)
BY SMT DEF DescriptionFactor, AtMost

LEMMA KeywordsGrow ==
  ASSUME NEW x \in Nat, NEW y \in Nat, x <= y
  PROVE  AtMost(KeywordFactor(x), 10000) /\ AtMost(KeywordFactor(y), 10000)
         /\ KeywordFactor(x) <= KeywordFactor(y)
<1>1. x * 2000 \in Nat /\ y * 2000 \in Nat /\ x * 2000 <= y * 2000 BY SMT DEF AtMost
<1> QED BY SMT, <1>1, SmallerOfTwo DEF KeywordFactor, AtMost

LEMMA WeightType == ASSUME NEW type \in TaskTypes PROVE AtMost(TaskTypeWeight(type), 10000)
BY SMT DEF TaskTypes, TaskTypeWeight, AtMost

\* The score a weighted sum of factors is rounded to.
ScoreOf(raw) == (Min({raw, 1000000}) + 50) \div 100

LEMMA ScoresGrow ==
  ASSUME NEW raw \in Nat, NEW raw2 \in Nat, raw <= raw2
  PROVE  AtMost(ScoreOf(raw), 10000) /\ ScoreOf(raw) <= ScoreOf(raw2)
<1>1. /\ Min({raw, 1000000}) = (IF raw <= 1000000 THEN raw ELSE 1000000)
      /\ Min({raw2, 1000000}) = (IF raw2 <= 1000000 THEN raw2 ELSE 1000000)
  BY SMT, SmallerOfTwo
<1> DEFINE m == Min({raw, 1000000})
           m2 == Min({raw2, 1000000})
<1>2. AtMost(m, 1000000) /\ AtMost(m2, 1000000) /\ m <= m2 BY SMT, <1>1 DEF AtMost
<1> HIDE DEF m, m2
<1>3. AtMost((m + 50) \div 100, 10000) /\ (m + 50) \div 100 <= (m2 + 50) \div 100 BY SMT, <1>2 DEF AtMost
<1> QED BY SMT, <1>3 DEF ScoreOf, m, m2

WeightedSum(q) ==
    35 * TaskTypeWeight(q.type) + 25 * TokenFactor(q.estimate)
    + 20 * DescriptionFactor(q.length) + 20 * KeywordFactor(q.keywords)

LEMMA RequestType ==
  ASSUME NEW q \in RouteRequests
  PROVE  /\ q.type \in TaskTypes /\ q.estimate \in Int /\ q.length \in Nat /\ q.keywords \in Nat
         /\ q.input \in 0 .. 1 /\ q.output \in 0 .. 1
BY RouterAssumption DEF RouteRequests

LEMMA ScoreIsAScore == ASSUME NEW q \in RouteRequests PROVE ComplexityOf(q) = ScoreOf(WeightedSum(q))
BY DEF ComplexityOf, ScoreOf, WeightedSum, FactorWeights

LEMMA HarderScoresHigher ==
  ASSUME NEW p \in RouteRequests, NEW q \in RouteRequests, Easier(p, q)
  PROVE  AtMost(ComplexityOf(p), 10000) /\ ComplexityOf(p) <= ComplexityOf(q)
<1>1. p.type = q.type /\ p.estimate <= q.estimate /\ p.length <= q.length /\ p.keywords <= q.keywords
  <2>1. Demands(p)[1] <= Demands(q)[1] /\ Demands(p)[2] <= Demands(q)[2] /\ Demands(p)[3] <= Demands(q)[3]
    BY DEF Easier
  <2> QED BY <2>1 DEF Easier, Demands
<1>2. /\ p.type \in TaskTypes /\ p.estimate \in Int /\ p.length \in Nat /\ p.keywords \in Nat
      /\ q.estimate \in Int /\ q.length \in Nat /\ q.keywords \in Nat
  BY RequestType
<1>3. AtMost(TaskTypeWeight(p.type), 10000) BY <1>2, WeightType DEF AtMost
<1>4. AtMost(TokenFactor(p.estimate), 10000) /\ TokenFactor(p.estimate) <= TokenFactor(q.estimate)
      /\ AtMost(TokenFactor(q.estimate), 10000)
  BY <1>1, <1>2, TokensGrow DEF AtMost
<1>5. AtMost(DescriptionFactor(p.length), 10000) /\ DescriptionFactor(p.length) <= DescriptionFactor(q.length)
      /\ AtMost(DescriptionFactor(q.length), 10000)
  BY <1>1, <1>2, DescriptionsGrow DEF AtMost
<1>6. AtMost(KeywordFactor(p.keywords), 10000) /\ KeywordFactor(p.keywords) <= KeywordFactor(q.keywords)
      /\ AtMost(KeywordFactor(q.keywords), 10000)
  BY <1>1, <1>2, KeywordsGrow DEF AtMost
<1> DEFINE w == TaskTypeWeight(p.type)
           t == TokenFactor(p.estimate)
           d == DescriptionFactor(p.length)
           k == KeywordFactor(p.keywords)
           t2 == TokenFactor(q.estimate)
           d2 == DescriptionFactor(q.length)
           k2 == KeywordFactor(q.keywords)
<1>7. w \in Nat /\ t \in Nat /\ d \in Nat /\ k \in Nat /\ t2 \in Nat /\ d2 \in Nat /\ k2 \in Nat
      /\ t <= t2 /\ d <= d2 /\ k <= k2
  BY <1>3, <1>4, <1>5, <1>6 DEF AtMost
<1>8. WeightedSum(p) = 35 * w + 25 * t + 20 * d + 20 * k /\ WeightedSum(q) = 35 * w + 25 * t2 + 20 * d2 + 20 * k2
  BY <1>1 DEF WeightedSum
<1> HIDE DEF w, t, d, k, t2, d2, k2
<1>9. WeightedSum(p) \in Nat /\ WeightedSum(q) \in Nat /\ WeightedSum(p) <= WeightedSum(q)
  BY SMT, <1>7, <1>8
<1> QED BY SMT, <1>9, ScoresGrow, ScoreIsAScore

LEMMA ScoreType == ASSUME NEW q \in RouteRequests PROVE AtMost(ComplexityOf(q), 10000)
<1>1. \A i \in 1 .. 3 : i = 1 \/ i = 2 \/ i = 3 OBVIOUS
<1>2. Easier(q, q) BY <1>1, RequestType DEF Easier, Demands
<1> QED BY <1>2, HarderScoresHigher

\* The higher a score, the more capable the tier.
LEMMA TiersFollowScores ==
  ASSUME NEW x \in Nat, NEW y \in Nat, x <= y, NEW a \in Nat, NEW b \in Nat
  PROVE  TierOf(x, <<a, b>>) \in Tiers /\ TierOf(y, <<a, b>>) <= TierOf(x, <<a, b>>)
BY DEF TierOf, Tiers

LEMMA HarderIsSentHigher ==
  ASSUME NEW p \in RouteRequests, NEW q \in RouteRequests, Easier(p, q)
  PROVE  SelectTier(p) \in Tiers /\ SelectTier(q) <= SelectTier(p)
<1>1. p.type = q.type /\ p.type \in TaskTypes BY RequestType DEF Easier
<1>2. CASE p.type \in DOMAIN TaskOverrides
  BY <1>1, <1>2 DEF SelectTier, TaskOverrides, Tiers
<1>3. CASE p.type \notin DOMAIN TaskOverrides
  <2>1. ComplexityOf(p) \in Nat /\ ComplexityOf(q) \in Nat /\ ComplexityOf(p) <= ComplexityOf(q)
    BY HarderScoresHigher, ScoreType DEF AtMost
  <2> QED BY <1>1, <1>3, <2>1, TiersFollowScores DEF SelectTier, RouterThresholds
<1> QED BY <1>2, <1>3

-----------------------------------------------------------------------------
\* CostCollector

LEMMA SelectType == ASSUME NEW q \in RouteRequests PROVE SelectTier(q) \in Tiers /\ RecommendedTier(q) \in Tiers
<1>1. \A i \in 1 .. 3 : i = 1 \/ i = 2 \/ i = 3 OBVIOUS
<1>2. Easier(q, q) BY <1>1, RequestType DEF Easier, Demands
<1>3. ComplexityOf(q) \in Nat BY ScoreType DEF AtMost
<1>4. RecommendedTier(q) \in Tiers BY <1>3, TiersFollowScores DEF RecommendedTier, ScorerThresholds
<1> QED BY <1>2, <1>4, HarderIsSentHigher

\* No tier is dearer than the first.
LEMMA CostType ==
  ASSUME NEW q \in RouteRequests, NEW tier \in Tiers
  PROVE  CostAt(tier, q) \in Nat /\ CostAt(tier, q) <= CostAt(1, q)
<1>1. q.input \in {0, 1} /\ q.output \in {0, 1} BY RequestType
<1>2. /\ Pricing(1).input = 60 /\ Pricing(1).output = 300
      /\ Pricing(2).input = 12 /\ Pricing(2).output = 60
      /\ Pricing(3).input = 1 /\ Pricing(3).output = 5
  BY DEF Pricing
<1>3. tier = 1 \/ tier = 2 \/ tier = 3 BY DEF Tiers
<1>4. CASE tier = 1 BY SMT, <1>1, <1>2, <1>4 DEF CostAt
<1>5. CASE tier = 2 BY SMT, <1>1, <1>2, <1>5 DEF CostAt
<1>6. CASE tier = 3
  <2>1. CostAt(3, q) = q.input + q.output * 5 /\ CostAt(1, q) = q.input * 60 + q.output * 300
    BY SMT, <1>1, <1>2 DEF CostAt
  <2>2. q.input + q.output * 5 \in Nat /\ q.input + q.output * 5 <= q.input * 60 + q.output * 300
    BY SMT, <1>1
  <2> QED BY SMT, <1>6, <2>1, <2>2
<1> QED BY <1>3, <1>4, <1>5, <1>6

TierRows == [input : Nat, output : Nat, cost : Nat, requests : Nat]

\* What the collector holds adds up.
CollectorInv ==
    /\ tierCosts \in [Tiers -> TierRows]
    /\ totals \in [requests : Nat, complexity : Nat, hypothetical : Nat, escalations : Nat]
    /\ totals.requests = tierCosts[1].requests + tierCosts[2].requests + tierCosts[3].requests
    /\ totals.requests <= MaxRoutes
    /\ totals.complexity <= 10000 * totals.requests
    /\ TotalRoutedCost <= totals.hypothetical

RoutedInv ==
    routed # NoRecord =>
        /\ routed \in [request : RouteRequests, recommended : Tiers, tier : Tiers]
        /\ routed.tier = SelectTier(routed.request)

\* One row grows by a request.
LEMMA RowGrows ==
  ASSUME CollectorInv, NEW q \in RouteRequests, NEW tier \in Tiers, RecordRouting(q, tier)
  PROVE  /\ tierCosts' \in [Tiers -> TierRows]
         /\ tierCosts'[tier].requests = tierCosts[tier].requests + 1
         /\ tierCosts'[tier].cost = tierCosts[tier].cost + CostAt(tier, q)
         /\ \A other \in Tiers : other # tier => tierCosts'[other] = tierCosts[other]
<1> DEFINE old == tierCosts[tier]
           cost == CostAt(tier, q)
           new == [input |-> old.input + q.input, output |-> old.output + q.output,
                   cost |-> old.cost + cost, requests |-> old.requests + 1]
<1>1. tierCosts \in [Tiers -> TierRows] /\ old \in TierRows BY DEF CollectorInv
<1>2. cost \in Nat /\ q.input \in Nat /\ q.output \in Nat BY CostType, RequestType
<1>3. tierCosts' = [tierCosts EXCEPT ![tier] = new] BY <1>1 DEF RecordRouting
<1> HIDE DEF cost
<1>4. new \in TierRows BY <1>1, <1>2 DEF TierRows
<1>5. new.requests = old.requests + 1 /\ new.cost = old.cost + cost OBVIOUS
<1> HIDE DEF new
<1> QED BY <1>1, <1>3, <1>4, <1>5 DEF cost

LEMMA RoutingKeeps ==
  ASSUME CollectorInv, RoutedInv, NEW q \in RouteRequests, RouteTask(q)
  PROVE  CollectorInv' /\ RoutedInv'
<1> DEFINE tier == SelectTier(q)
           cost == CostAt(tier, q)
           dearest == CostAt(1, q)
           score == ComplexityOf(q)
<1>1. tier \in Tiers /\ RecommendedTier(q) \in Tiers BY SelectType
<1>2. RecordRouting(q, tier) /\ totals.requests < MaxRoutes BY DEF RouteTask
<1>3. cost \in Nat /\ dearest \in Nat /\ cost <= dearest
  <2>1. 1 \in Tiers BY DEF Tiers
  <2> QED BY <1>1, <2>1, CostType
<1>4. score \in Nat /\ score <= 10000 BY ScoreType DEF AtMost
<1>5. totals' = [totals EXCEPT !.requests = @ + 1, !.complexity = @ + score, !.hypothetical = @ + dearest]
  BY <1>2 DEF RecordRouting
<1>6. /\ tierCosts' \in [Tiers -> TierRows]
      /\ tierCosts'[tier].requests = tierCosts[tier].requests + 1
      /\ tierCosts'[tier].cost = tierCosts[tier].cost + cost
      /\ \A other \in Tiers : other # tier => tierCosts'[other] = tierCosts[other]
  BY <1>1, <1>2, RowGrows
<1>7. \A i \in Tiers : /\ tierCosts[i].cost \in Nat /\ tierCosts[i].requests \in Nat
                       /\ tierCosts'[i].cost \in Nat /\ tierCosts'[i].requests \in Nat
  BY <1>6 DEF CollectorInv, TierRows
<1>8. 1 \in Tiers /\ 2 \in Tiers /\ 3 \in Tiers /\ (tier = 1 \/ tier = 2 \/ tier = 3) BY <1>1 DEF Tiers
<1> HIDE DEF tier, cost, dearest, score
<1>9. totals' = [requests |-> totals.requests + 1, complexity |-> totals.complexity + score,
                 hypothetical |-> totals.hypothetical + dearest, escalations |-> totals.escalations]
  <2> DEFINE n == totals.requests + 1
             c == totals.complexity + score
             h == totals.hypothetical + dearest
  <2>1. totals' = [totals EXCEPT !.requests = n, !.complexity = c, !.hypothetical = h] BY <1>5
  <2>2. totals \in [requests : Nat, complexity : Nat, hypothetical : Nat, escalations : Nat] BY DEF CollectorInv
  <2> HIDE DEF n, c, h
  <2>3. totals' = [requests |-> n, complexity |-> c, hypothetical |-> h, escalations |-> totals.escalations]
    BY <2>1, <2>2
  <2> QED BY <2>3 DEF n, c, h
<1>10. /\ totals.requests \in Nat /\ totals.complexity \in Nat
       /\ totals.hypothetical \in Nat /\ totals.escalations \in Nat
  BY DEF CollectorInv
<1>11. /\ totals'.requests = totals.requests + 1 /\ totals'.complexity = totals.complexity + score
       /\ totals'.hypothetical = totals.hypothetical + dearest
       /\ totals' \in [requests : Nat, complexity : Nat, hypothetical : Nat, escalations : Nat]
  BY <1>3, <1>4, <1>9, <1>10
<1>12. totals'.requests = tierCosts'[1].requests + tierCosts'[2].requests + tierCosts'[3].requests
  BY <1>6, <1>7, <1>8, <1>11 DEF CollectorInv
<1>13. tierCosts'[1].cost + tierCosts'[2].cost + tierCosts'[3].cost
          = tierCosts[1].cost + tierCosts[2].cost + tierCosts[3].cost + cost
  BY <1>3, <1>6, <1>7, <1>8
<1>14. TotalRoutedCost' <= totals'.hypothetical
  BY <1>3, <1>7, <1>8, <1>10, <1>11, <1>13 DEF TotalRoutedCost, CollectorInv
<1>15. totals'.requests <= MaxRoutes BY <1>2, <1>10, <1>11, RouterAssumption
<1>16. totals'.complexity <= 10000 * totals'.requests
  BY SMT, <1>4, <1>10, <1>11 DEF CollectorInv
<1>17. RoutedInv'
  <2>1. routed' = [request |-> q, recommended |-> RecommendedTier(q), tier |-> tier] BY DEF RouteTask, tier
  <2>2. routed' \in [request : RouteRequests, recommended : Tiers, tier : Tiers] BY <1>1, <2>1
  <2> QED BY <2>1, <2>2 DEF RoutedInv, tier
<1> QED BY <1>6, <1>11, <1>12, <1>14, <1>15, <1>16, <1>17 DEF CollectorInv

LEMMA AverageType == CollectorInv => AverageComplexity \in Nat /\ AverageComplexity <= 10000
<1> SUFFICES ASSUME CollectorInv PROVE AverageComplexity \in Nat /\ AverageComplexity <= 10000
  OBVIOUS
<1>1. ASSUME NEW x \in Nat, NEW n \in Nat, n > 0, x <= 10000 * n
      PROVE  x \div n \in Nat /\ x \div n <= 10000
  BY SMT, <1>1
<1>2. /\ totals.complexity \in Nat /\ totals.requests \in Nat /\ totals.complexity <= 10000 * totals.requests
  BY SMT DEF CollectorInv
<1> QED BY SMT, <1>1, <1>2 DEF AverageComplexity

-----------------------------------------------------------------------------
\* EscalationPolicy

LEMMA LastOtherIs ==
  ASSUME NEW h \in Seq(Tiers), NEW tier
  PROVE  LET S == {i \in 0 .. Len(h) : i > 0 => h[i] # tier} IN
         Max(S) \in S /\ \A i \in S : i <= Max(S)
<1> DEFINE S == {i \in 0 .. Len(h) : i > 0 => h[i] # tier}
<1>1. Len(h) \in Nat OBVIOUS
<1>2. S \subseteq Nat /\ 0 \in S /\ \A i \in S : i <= Len(h) BY <1>1
<1> HIDE DEF S
<1>3. Max(S) \in S /\ \A i \in S : i <= Max(S) BY <1>1, <1>2, BoundedMax
<1> QED BY <1>3 DEF S

LEMMA TrailingType ==
  ASSUME NEW h \in Seq(Tiers), NEW tier
  PROVE  TrailingFailures(h, tier) \in Nat
<1> DEFINE S == {i \in 0 .. Len(h) : i > 0 => h[i] # tier}
<1>1. Max(S) \in S BY LastOtherIs
<1>2. Max(S) \in 0 .. Len(h) /\ Len(h) \in Nat BY <1>1
<1>3. TrailingFailures(h, tier) = Len(h) - Max(S) BY DEF TrailingFailures
<1> HIDE DEF S
<1> QED BY <1>2, <1>3

\* One more failure on the tier they are all of.
LEMMA TrailingGrows ==
  ASSUME NEW h \in Seq(Tiers), NEW tier \in Tiers
  PROVE  TrailingFailures(Append(h, tier), tier) = TrailingFailures(h, tier) + 1
<1> DEFINE g == Append(h, tier)
           S == {i \in 0 .. Len(h) : i > 0 => h[i] # tier}
           T == {i \in 0 .. Len(g) : i > 0 => g[i] # tier}
           n == Len(h)
<1>1. n \in Nat /\ Len(g) = n + 1 /\ g[n + 1] = tier /\ \A i \in 1 .. n : g[i] = h[i] OBVIOUS
<1> HIDE DEF g, n
<1>2. ASSUME NEW i PROVE i \in S <=> i \in T
  <2>1. i \in 0 .. n + 1 <=> i \in 0 .. n \/ i = n + 1 BY <1>1
  <2>2. i \in 0 .. n /\ i > 0 => i \in 1 .. n BY <1>1
  <2>3. n + 1 > 0 /\ n + 1 \notin 0 .. n BY <1>1
  <2>4. i \in S <=> i \in 0 .. n /\ (i > 0 => h[i] # tier) BY DEF n
  <2>5. i \in T <=> i \in 0 .. n + 1 /\ (i > 0 => g[i] # tier) BY <1>1
  <2> HIDE DEF S, T
  <2> QED BY <2>1, <2>2, <2>3, <2>4, <2>5, <1>1
<1>3. S = T BY <1>2
<1>4. Max(S) \in Nat
  <2>1. Max(S) \in S BY LastOtherIs
  <2> QED BY <2>1
<1>5. TrailingFailures(h, tier) = n - Max(S) BY DEF TrailingFailures, n
<1>6. TrailingFailures(g, tier) = Len(g) - Max(T) BY DEF TrailingFailures
<1> HIDE DEF S, T
<1> QED BY <1>1, <1>3, <1>4, <1>5, <1>6 DEF g

\* None yet on a tier the last failure was not of.
LEMMA TrailingOfAnother ==
  ASSUME NEW h \in Seq(Tiers), NEW tier \in Tiers, NEW other, other # tier
  PROVE  TrailingFailures(Append(h, tier), other) = 0
<1> DEFINE g == Append(h, tier)
           T == {i \in 0 .. Len(g) : i > 0 => g[i] # other}
           n == Len(h)
<1>1. n \in Nat /\ Len(g) = n + 1 /\ g[n + 1] = tier /\ g \in Seq(Tiers) OBVIOUS
<1>2. Max(T) \in T /\ \A i \in T : i <= Max(T) BY <1>1, LastOtherIs
<1> HIDE DEF g, n
<1>3. n + 1 \in T /\ T \subseteq 0 .. n + 1 BY <1>1
<1>4. TrailingFailures(g, other) = Len(g) - Max(T) BY DEF TrailingFailures
<1> HIDE DEF T
<1>5. Max(T) = n + 1
  <2>1. Max(T) \in 0 .. n + 1 /\ n + 1 <= Max(T) BY <1>2, <1>3
  <2> QED BY <2>1, <1>1
<1> QED BY <1>1, <1>4, <1>5 DEF g

EscalationRecords == [failures : Nat \ {0}, tier : Tiers, history : Seq(Tiers), human : BOOLEAN]

\* A record counts its history; a person is called for a task that has failed too often in all or,
\* by its last failures, at the last tier, and for no other.
RecordOK(r) ==
    /\ r \in EscalationRecords
    /\ r.failures = Len(r.history)
    /\ TrailingFailures(r.history, r.tier) >= MaxTierFailures => r.human
    /\ r.failures >= MaxTotalFailures \/ TrailingFailures(r.history, 1) >= MaxTierFailures => r.human
    /\ r.human => \/ r.failures >= MaxTotalFailures
                  \/ r.tier = 1 /\ TrailingFailures(r.history, 1) >= MaxTierFailures

PolicyInv ==
    /\ DOMAIN records = RoutedTasks
    /\ \A t \in RoutedTasks : records[t] = NoRecord \/ RecordOK(records[t])

LEMMA NoRecordIsNone == ASSUME NEW r, RecordOK(r) PROVE r # NoRecord
<1>1. r.failures # 0 BY DEF RecordOK, EscalationRecords
<1> QED BY <1>1 DEF NoRecord

\* What a failure makes of the record of a task.
LEMMA FailureIsRecorded ==
  ASSUME PolicyInv, NEW t \in RoutedTasks, NEW tier \in Tiers
  PROVE  LET r == FailureRecord(t, tier) IN
         /\ RecordOK(r) /\ r.tier <= tier /\ Last(r.history) = tier
         /\ records[t] # NoRecord /\ records[t].tier = tier /\ records[t].human => r.human
         /\ records[t] # NoRecord /\ records[t].failures >= MaxTotalFailures => r.human
<1> DEFINE history == IF records[t] = NoRecord THEN <<>> ELSE records[t].history
           failures == records[t].failures + 1
           before == TrailingFailures(history, tier)
           moved == 1 + before >= MaxTierFailures /\ NextTier(tier) # 0
           exhausted == 1 + before >= MaxTierFailures /\ NextTier(tier) = 0
           newTier == IF moved THEN NextTier(tier) ELSE tier
           list == Append(history, tier)
           human == failures >= MaxTotalFailures \/ exhausted
           r == FailureRecord(t, tier)
<1>1. r = [failures |-> failures, tier |-> newTier, history |-> list, human |-> human]
  BY DEF FailureRecord
<1>2. history \in Seq(Tiers) /\ failures = Len(history) + 1
  <2>1. CASE records[t] = NoRecord BY <2>1 DEF NoRecord
  <2>2. CASE records[t] # NoRecord BY <2>2 DEF PolicyInv, RecordOK, EscalationRecords
  <2> QED BY <2>1, <2>2
<1>3. before \in Nat BY <1>2, TrailingType
<1>4. newTier \in Tiers /\ newTier <= tier /\ (NextTier(tier) = 0 <=> tier = 1) /\ (moved => newTier # tier)
  BY DEF NextTier, Tiers
<1>5. TrailingFailures(list, tier) = before + 1 BY <1>2, TrailingGrows
<1>6. moved => TrailingFailures(list, newTier) = 0 BY <1>2, <1>4, TrailingOfAnother
<1>7. MaxTierFailures \in Nat \ {0} /\ MaxTotalFailures \in Nat BY RouterAssumption
<1>8. list \in Seq(Tiers) /\ Len(list) = failures /\ failures \in Nat \ {0} BY <1>2
<1> HIDE DEF before, list
<1>9. TrailingFailures(list, newTier) >= MaxTierFailures => human
  <2>1. CASE moved BY <2>1, <1>6, <1>7
  <2>2. CASE ~moved
    <3>1. newTier = tier BY <2>2
    <3>2. ASSUME before + 1 >= MaxTierFailures PROVE exhausted BY <3>2, <2>2, <1>3, <1>7
    <3> QED BY <3>1, <3>2, <1>5
  <2> QED BY <2>1, <2>2
<1>10. human => failures >= MaxTotalFailures \/ (newTier = 1 /\ TrailingFailures(list, 1) >= MaxTierFailures)
  <2> SUFFICES ASSUME exhausted PROVE newTier = 1 /\ TrailingFailures(list, 1) >= MaxTierFailures OBVIOUS
  <2>1. tier = 1 /\ newTier = 1 BY <1>4
  <2> QED BY <2>1, <1>3, <1>5, <1>7
<1>11. human \in BOOLEAN OBVIOUS
<1>16. failures >= MaxTotalFailures \/ TrailingFailures(list, 1) >= MaxTierFailures => human
  <2>1. ASSUME TrailingFailures(list, 1) >= MaxTierFailures PROVE exhausted
    <3>1. CASE tier = 1
      <4>1. TrailingFailures(list, 1) = before + 1 BY <3>1, <1>5
      <4> QED BY <4>1, <2>1, <3>1, <1>3, <1>4, <1>7
    <3>2. CASE tier # 1
      <4>1. TrailingFailures(list, 1) = 0 BY <3>2, <1>2, TrailingOfAnother DEF list
      <4> QED BY <4>1, <2>1, <1>7
    <3> QED BY <3>1, <3>2
  <2> QED BY <2>1
<1>17. Last(list) = tier
  <2>1. Last(list) = list[Len(list)] BY DEF Last
  <2>2. list[Len(history) + 1] = tier /\ Len(list) = Len(history) + 1 BY <1>2 DEF list
  <2> QED BY <2>1, <2>2
<1>18. ASSUME records[t] # NoRecord, records[t].failures >= MaxTotalFailures PROVE human
  <2>1. records[t].failures \in Nat BY <1>18 DEF PolicyInv, RecordOK, EscalationRecords
  <2> QED BY <2>1, <1>18, <1>7
<1>12. ASSUME records[t] # NoRecord, records[t].tier = tier, records[t].human PROVE human
  <2>1. RecordOK(records[t]) /\ history = records[t].history BY <1>12 DEF PolicyInv
  <2>2. records[t].failures >= MaxTotalFailures \/ (tier = 1 /\ before >= MaxTierFailures)
    BY <2>1, <1>12 DEF RecordOK, before
  <2>3. ASSUME records[t].failures >= MaxTotalFailures PROVE failures >= MaxTotalFailures
    <3>1. records[t].failures \in Nat BY <2>1 DEF RecordOK, EscalationRecords
    <3> QED BY <3>1, <2>3, <1>7
  <2>4. ASSUME tier = 1, before >= MaxTierFailures PROVE exhausted BY <2>4, <1>3, <1>4, <1>7
  <2> QED BY <2>2, <2>3, <2>4
<1> HIDE DEF history, failures, moved, exhausted, newTier, human, r
<1>13. r \in EscalationRecords BY <1>1, <1>4, <1>8, <1>11 DEF EscalationRecords
<1>14. r.failures = failures /\ r.tier = newTier /\ r.history = list /\ r.human = human BY <1>1
<1>15. RecordOK(r) BY <1>8, <1>9, <1>10, <1>13, <1>14, <1>16 DEF RecordOK
<1> QED BY <1>4, <1>12, <1>14, <1>15, <1>17, <1>18 DEF r

LEMMA PolicyKeeps ==
  ASSUME PolicyInv, PolicyNext
  PROVE  PolicyInv' /\ FailureStep
<1>1. ASSUME NEW u \in RoutedTasks, NEW tier \in Tiers, RecordFailure(u, tier)
      PROVE  PolicyInv' /\ FailureStep
  <2>1. records' = [records EXCEPT ![u] = FailureRecord(u, tier)] BY <1>1 DEF RecordFailure
  <2>2. records'[u] = FailureRecord(u, tier) /\ DOMAIN records' = RoutedTasks
        /\ \A t \in RoutedTasks : t # u => records'[t] = records[t]
    BY <2>1 DEF PolicyInv
  <2>3. /\ RecordOK(records'[u]) /\ records'[u].tier <= tier /\ Last(records'[u].history) = tier
        /\ records[u] # NoRecord /\ records[u].tier = tier /\ records[u].human => records'[u].human
        /\ records[u] # NoRecord /\ records[u].failures >= MaxTotalFailures => records'[u].human
    BY <2>2, FailureIsRecorded
  <2>4. PolicyInv' BY <2>2, <2>3 DEF PolicyInv, RecordOK
  <2>5. records'[u].tier \in Tiers BY <2>3 DEF RecordOK, EscalationRecords
  <2>6. records[u] # NoRecord => records[u].tier \in Tiers BY DEF PolicyInv, RecordOK, EscalationRecords
  <2>7. records[u] # NoRecord =>
           (records'[u].tier > records[u].tier \/ (records[u].human /\ ~records'[u].human) => tier # records[u].tier)
    BY <2>3, <2>5, <2>6 DEF Tiers
  <2> QED BY <2>2, <2>3, <2>4, <2>7 DEF FailureStep
<1>2. ASSUME NEW u \in RoutedTasks, ResetEscalation(u)
      PROVE  PolicyInv' /\ FailureStep
  <2>1. records' = [records EXCEPT ![u] = NoRecord] BY <1>2 DEF ResetEscalation
  <2>2. records'[u] = NoRecord /\ DOMAIN records' = RoutedTasks
        /\ \A t \in RoutedTasks : t # u => records'[t] = records[t]
    BY <2>1 DEF PolicyInv
  <2> QED BY <2>2 DEF PolicyInv, RecordOK, FailureStep
<1>3. CASE RecordEscalation
  <2>1. records' = records BY <1>3 DEF RecordEscalation
  <2> QED BY <2>1 DEF PolicyInv, RecordOK, FailureStep
<1> QED BY <1>1, <1>2, <1>3 DEF PolicyNext

\* The policy leaves the decisions and the costs as they are, but counts escalations.
LEMMA PolicyCostsNothing ==
  ASSUME CollectorInv, RoutedInv, PolicyNext
  PROVE  CollectorInv' /\ RoutedInv'
<1>1. CASE RecordEscalation
  <2>1. totals' = [totals EXCEPT !.escalations = @ + 1] /\ UNCHANGED <<routed, tierCosts>>
    BY <1>1 DEF RecordEscalation
  <2>2. totals \in [requests : Nat, complexity : Nat, hypothetical : Nat, escalations : Nat] BY DEF CollectorInv
  <2>3. /\ totals' \in [requests : Nat, complexity : Nat, hypothetical : Nat, escalations : Nat]
        /\ totals'.requests = totals.requests /\ totals'.complexity = totals.complexity
        /\ totals'.hypothetical = totals.hypothetical
    BY <2>1, <2>2
  <2> QED BY <2>1, <2>3 DEF CollectorInv, RoutedInv, TotalRoutedCost
<1>2. CASE UNCHANGED <<routed, tierCosts, totals>>
  BY <1>2 DEF CollectorInv, RoutedInv, TotalRoutedCost
<1> QED BY <1>1, <1>2 DEF PolicyNext, ResetEscalation, RecordFailure

RouterInv == CollectorInv /\ RoutedInv /\ PolicyInv

LEMMA RouterStart == RouterInit => RouterInv
<1> SUFFICES ASSUME RouterInit PROVE RouterInv OBVIOUS
<1>1. CollectorInv
  <2>1. 1 \in Tiers /\ 2 \in Tiers /\ 3 \in Tiers BY DEF Tiers
  <2>2. \A i \in Tiers : tierCosts[i] = [input |-> 0, output |-> 0, cost |-> 0, requests |-> 0]
    BY DEF RouterInit
  <2>3. tierCosts \in [Tiers -> TierRows] BY DEF RouterInit, TierRows
  <2> QED BY <2>1, <2>2, <2>3, RouterAssumption DEF RouterInit, CollectorInv, TotalRoutedCost
<1>2. RoutedInv BY DEF RouterInit, RoutedInv
<1>3. PolicyInv BY DEF RouterInit, PolicyInv
<1> QED BY <1>1, <1>2, <1>3 DEF RouterInv

LEMMA RouterStep ==
  ASSUME RouterInv, [RoutingNext \/ PolicyNext]_routerVars
  PROVE  RouterInv' /\ [FailureStep]_records
<1>1. CASE RoutingNext
  <2>1. UNCHANGED records BY <1>1 DEF RoutingNext, RouteTask
  <2>2. PolicyInv' BY <2>1 DEF RouterInv, PolicyInv, RecordOK
  <2>3. CollectorInv' /\ RoutedInv' BY <1>1, RoutingKeeps DEF RoutingNext, RouterInv
  <2> QED BY <2>1, <2>2, <2>3 DEF RouterInv
<1>2. CASE PolicyNext BY <1>2, PolicyKeeps, PolicyCostsNothing DEF RouterInv
<1>3. CASE UNCHANGED routerVars
  BY <1>3 DEF routerVars, RouterInv, CollectorInv, RoutedInv, TotalRoutedCost, PolicyInv, RecordOK
<1> QED BY <1>1, <1>2, <1>3

LEMMA RouterIsRight == RouterInv => RoutesFollowDifficulty
<1> SUFFICES ASSUME RouterInv PROVE RoutesFollowDifficulty OBVIOUS
<1>1. CollectorInv /\ RoutedInv /\ PolicyInv BY DEF RouterInv
<1>2. 1 \in Tiers /\ 2 \in Tiers /\ 3 \in Tiers BY DEF Tiers
<1>3. RouterTypeOK
  <2>1. ASSUME NEW i \in Tiers
        PROVE  tierCosts[i] \in [input : Nat, output : Nat, cost : Nat, requests : 0 .. MaxRoutes]
    <3>1. \A j \in Tiers : tierCosts[j].requests \in Nat /\ tierCosts[j] \in TierRows
      BY <1>1 DEF CollectorInv, TierRows
    <3>2. tierCosts[i].requests \in 0 .. MaxRoutes
      BY <1>1, <1>2, <3>1, RouterAssumption DEF CollectorInv, Tiers
    <3> QED BY <3>1, <3>2 DEF TierRows
  <2>2. tierCosts \in [Tiers -> [input : Nat, output : Nat, cost : Nat, requests : 0 .. MaxRoutes]]
    BY <1>1, <2>1 DEF CollectorInv
  <2>3. \A t \in RoutedTasks :
           records[t] = NoRecord \/ (records[t].tier \in Tiers /\ records[t].failures = Len(records[t].history))
    BY <1>1 DEF PolicyInv, RecordOK, EscalationRecords
  <2>4. AverageComplexity \in Nat /\ AverageComplexity <= 10000 BY <1>1, AverageType
  <2>5. routed = NoRecord \/ routed \in [request : RouteRequests, recommended : Tiers, tier : Tiers]
    BY <1>1 DEF RoutedInv
  <2>6. totals.requests = tierCosts[1].requests + tierCosts[2].requests + tierCosts[3].requests
    BY <1>1 DEF CollectorInv
  <2> QED BY SMT, <2>2, <2>3, <2>4, <2>5, <2>6 DEF RouterTypeOK
<1>4. HarderIsNotCheaper
  <2> SUFFICES ASSUME routed # NoRecord, NEW p \in RouteRequests, Easier(p, routed.request)
               PROVE  routed.tier <= SelectTier(p)
    BY DEF HarderIsNotCheaper
  <2>1. routed.request \in RouteRequests /\ routed.tier = SelectTier(routed.request) BY <1>1 DEF RoutedInv
  <2> QED BY <2>1, HarderIsSentHigher
<1>5. SavingsNeverNegative
  <2>1. totals.hypothetical \in Nat /\ TotalRoutedCost <= totals.hypothetical BY <1>1 DEF CollectorInv
  <2>2. \A i \in Tiers : tierCosts[i].cost \in Nat BY <1>1 DEF CollectorInv, TierRows
  <2>3. TotalRoutedCost \in Nat BY <1>2, <2>2 DEF TotalRoutedCost
  <2> QED BY <2>1, <2>3 DEF SavingsNeverNegative, Savings
<1>6. EscalatesOnce BY <1>1 DEF EscalatesOnce, ShouldEscalate, PolicyInv, RecordOK
<1>7. PersonIsAsked BY <1>1 DEF PersonIsAsked, PolicyInv, RecordOK
<1> QED BY <1>3, <1>4, <1>5, <1>6, <1>7 DEF RoutesFollowDifficulty

\* With the code's weights, prices and thresholds, for all requests and all limits of the policy: a
\* harder task of a type is never routed to a weaker tier, savings are never negative, each request
\* is counted once, and a person is asked for exactly when a task failed too often in all or, by its
\* last failures, at the strongest tier (router.py, scorer.py, cost_collector.py, escalation.py).
THEOREM RoutesHold == RouterSpec => []RoutesFollowDifficulty
<1>1. RouterInv /\ [RoutingNext \/ PolicyNext]_routerVars => RouterInv' BY RouterStep
<1> QED BY RouterStart, <1>1, RouterIsRight, PTL DEF RouterSpec

\* For all limits and whatever tiers the callers report: only a report for another tier than the
\* task's own moves it to a weaker model or takes it back from a person, not past the tier it names
\* and not from a person who was asked for the failures in all (record_failure).
THEOREM FailuresHold == RouterSpec => FailuresOnlyEscalate
<1>1. RouterInv /\ [RoutingNext \/ PolicyNext]_routerVars => RouterInv' /\ [FailureStep]_records
  BY RouterStep
<1> QED BY RouterStart, <1>1, PTL DEF RouterSpec, FailuresOnlyEscalate

-----------------------------------------------------------------------------
(*****************************************************************************)
(* Security Immune System                                                    *)
(*                                                                           *)
(* Every decision of the gate is the gate's on results whose verdicts the    *)
(* scanners computed (DecisionInv), so what it says of its findings follows  *)
(* from the results alone.  The rows of _levenshtein_distance are a table    *)
(* (IsTable) that changes by at most one with an edit, hence no fewer edits  *)
(* suffice; and every entry is the length of a path of words, on which       *)
(* letters are taken away first and put in last, so no word is longer than   *)
(* the two names (TableIsPaths).                                             *)
(*****************************************************************************)

\* Results of scans, and the gate.

IsResult(r) == r = ScanResult(r.kind, r.findings)

LEMMA ResultIs ==
  ASSUME NEW kind, NEW findings
  PROVE  /\ IsResult(ScanResult(kind, findings)) /\ ScanResult(kind, findings).findings = findings
BY DEF IsResult, ScanResult

\* A scan fails exactly when it has a high or a critical finding.
LEMMA VerdictSays ==
  ASSUME NEW r, IsResult(r)
  PROVE  /\ r.verdict \in {"pass", "warn", "fail"}
         /\ r.verdict = "fail" <=> \E f \in r.findings : f.severity \in {"critical", "high"}
<1> DEFINE s == {f.severity : f \in r.findings}
<1>1. r.verdict = ComputeVerdict(r.findings) BY DEF IsResult, ScanResult
<1>2. ComputeVerdict(r.findings) =
        IF s \cap {"critical", "high"} # {} THEN "fail" ELSE IF "medium" \in s THEN "warn" ELSE "pass"
  BY DEF ComputeVerdict
<1>3. s \cap {"critical", "high"} # {} <=> \E f \in r.findings : f.severity \in {"critical", "high"} OBVIOUS
<1> HIDE DEF s
<1> QED BY <1>1, <1>2, <1>3

\* What a gate that allows did not find.
LEMMA GateSays ==
  ASSUME NEW results, \A i \in DOMAIN results : IsResult(results[i]), gateMode \in [enforce : BOOLEAN, block : BOOLEAN]
  PROVE  /\ EvaluateGate(results).allowed <=>
                \A i \in DOMAIN results : \A f \in results[i].findings :
                    /\ gateMode.enforce => f.severity \notin {"critical", "high"}
                    /\ gateMode.block => f.severity # "critical"
         /\ EvaluateGate(results).action \in {"block", "warn", "log"}
         /\ EvaluateGate(results).allowed \in BOOLEAN
         /\ EvaluateGate(results).results = results
<1> DEFINE all == UNION {results[i].findings : i \in DOMAIN results}
           failed == \E i \in DOMAIN results : results[i].verdict = "fail"
           blocked == \/ gateMode.block /\ \E f \in all : f.severity = "critical"
                      \/ gateMode.enforce /\ failed
           blocking == \E f \in all : f.severity \in {"critical", "high"}
<1>1. failed <=> \E i \in DOMAIN results : \E f \in results[i].findings : f.severity \in {"critical", "high"}
  BY VerdictSays
<1>2. (\E f \in all : f.severity = "critical")
        <=> \E i \in DOMAIN results : \E f \in results[i].findings : f.severity = "critical"
  OBVIOUS
<1>3. EvaluateGate(results) = [results |-> results, allowed |-> ~ blocked,
        action |-> IF blocked THEN "block"
                   ELSE IF failed \/ (blocking /\ gateMode.enforce) THEN "warn" ELSE "log"]
  BY DEF EvaluateGate
<1>4. blocked \in BOOLEAN OBVIOUS
<1>5. blocked <=> \/ gateMode.block /\ \E i \in DOMAIN results : \E f \in results[i].findings : f.severity = "critical"
                  \/ gateMode.enforce /\ \E i \in DOMAIN results : \E f \in results[i].findings :
                                             f.severity \in {"critical", "high"}
  BY <1>1, <1>2
<1> HIDE DEF blocked, failed, blocking, all
<1>6. EvaluateGate(results).allowed = ~ blocked /\ EvaluateGate(results).results = results BY <1>3
<1>7. EvaluateGate(results).action \in {"block", "warn", "log"} BY <1>3
<1> QED BY <1>4, <1>5, <1>6, <1>7

-----------------------------------------------------------------------------
\* The invariant: everything that is stored or decided comes from results of scans.

KnownKeys == UNION {{<<i, f>> : f \in scans[i].findings} : i \in DOMAIN scans}
ScansInv == \E results : scans \in Seq(results) /\ \A r \in results : IsResult(r)
FindingsInv == DOMAIN statuses = KnownKeys /\ \A k \in DOMAIN statuses : statuses[k] \in FindingStatuses
ScanRunInv == \E at, r, allowed : scanRun = [at |-> at, result |-> r, allowed |-> allowed] /\ IsResult(r)
DecisionInv == decision = EvaluateGate(decision.results) /\ \A i \in DOMAIN decision.results : IsResult(decision.results[i])
MonitoringInv == /\ monitoring.iterations \in 0 .. MaxIterations
                 /\ monitoring.scans \in Nat /\ monitoring.scans <= monitoring.iterations

SecurityInv ==
    /\ gateMode \in [enforce : BOOLEAN, block : BOOLEAN] /\ names \in PackageNames \X PackageNames
    /\ ScansInv /\ FindingsInv /\ ScanRunInv /\ DecisionInv /\ MonitoringInv

LEMMA SecurityStart ==
  ASSUME SecurityInit
  PROVE  SecurityInv
<1> USE SecurityAssumption
<1>1. ScansInv
  <2>1. scans \in Seq({}) BY EmptySeq DEF SecurityInit
  <2> QED BY <2>1 DEF ScansInv
<1>2. DOMAIN scans = {} BY EmptySeq DEF SecurityInit
<1>3. FindingsInv
  <2>1. KnownKeys = {} BY <1>2 DEF KnownKeys
  <2>2. DOMAIN statuses = {} BY EmptySeq DEF SecurityInit
  <2> QED BY <2>1, <2>2 DEF FindingsInv
<1>4. IsResult(Nothing) BY ResultIs DEF Nothing
<1>5. ScanRunInv BY <1>4 DEF ScanRunInv, SecurityInit
<1>6. DecisionInv
  <2>1. decision.results = <<>> BY DEF SecurityInit, NoDecision
  <2>2. DOMAIN decision.results = {} BY <2>1, EmptySeq
  <2>3. EvaluateGate(<<>>) = [results |-> <<>>, allowed |-> TRUE, action |-> "log"]
    <3>1. PICK none : none = <<>> OBVIOUS
    <3>2. DOMAIN none = {} BY <3>1, EmptySeq
    <3>3. EvaluateGate(none) = [results |-> none, allowed |-> TRUE, action |-> "log"] BY <3>2 DEF EvaluateGate
    <3> QED BY <3>1, <3>3
  <2> QED BY <2>1, <2>2, <2>3 DEF DecisionInv, SecurityInit, NoDecision
<1>7. MonitoringInv BY DEF MonitoringInv, SecurityInit
<1> QED BY <1>1, <1>3, <1>5, <1>6, <1>7 DEF SecurityInv, SecurityInit

\* A route stores the result of a scan.
LEMMA StoreKeeps ==
  ASSUME SecurityInv, NEW kind, NEW findings, StoreScan(ScanResult(kind, findings))
  PROVE  SecurityInv' /\ TriageStep
<1> DEFINE result == ScanResult(kind, findings)
<1>1. IsResult(result) /\ result.findings = findings BY ResultIs
<1>2. scans' = Append(scans, result)
      /\ statuses' = WithOpen({<<Len(scans) + 1, f>> : f \in result.findings})
      /\ UNCHANGED <<gateMode, policies, scannerVars, names>>
  BY DEF StoreScan
<1> HIDE DEF result
<1>3. UNCHANGED <<scanRun, decision, reported, monitoring>> BY <1>2 DEF scannerVars
<1>4. PICK results : scans \in Seq(results) /\ \A r \in results : IsResult(r) BY DEF SecurityInv, ScansInv
<1>5. PICK more : more = results \cup {result} OBVIOUS
<1>6. scans \in Seq(more)
  <2>1. DOMAIN scans = 1 .. Len(scans) /\ Len(scans) \in Nat BY <1>4, LenProperties
  <2>2. scans \in [1 .. Len(scans) -> results] BY <1>4, <2>1, SeqDef, LenProperties
  <2>3. scans \in [1 .. Len(scans) -> more] BY <1>5, <2>2
  <2> QED BY <2>1, <2>3, SeqDef
<1>7. result \in more BY <1>5
<1>8. PICK n : n = Len(scans) OBVIOUS
<1>9. n \in Nat /\ DOMAIN scans = 1 .. n BY <1>6, <1>8, LenProperties
<1>10. scans' \in Seq(more) /\ DOMAIN scans' = 1 .. n + 1 /\ scans'[n + 1] = result /\ \A i \in 1 .. n : scans'[i] = scans[i]
  BY <1>2, <1>6, <1>7, <1>8, <1>9, AppendProperties, LenProperties
<1>11. ScansInv' BY <1>1, <1>4, <1>5, <1>10 DEF ScansInv
<1>12. PICK new : new = {<<n + 1, f>> : f \in findings} OBVIOUS
<1>13. DOMAIN statuses = UNION {{<<i, f>> : f \in scans[i].findings} : i \in 1 .. n}
       /\ \A k \in DOMAIN statuses : statuses[k] \in FindingStatuses
  BY <1>9 DEF SecurityInv, FindingsInv, KnownKeys
<1>14. statuses' = [k \in new \cup DOMAIN statuses |-> IF k \in new THEN "open" ELSE statuses[k]]
  BY <1>1, <1>2, <1>8, <1>12 DEF WithOpen
<1>15. DOMAIN statuses' = new \cup DOMAIN statuses BY <1>14
<1>16. KnownKeys' = UNION {{<<i, f>> : f \in scans'[i].findings} : i \in 1 .. n + 1} BY <1>10 DEF KnownKeys
<1>17. KnownKeys' = new \cup DOMAIN statuses
  <2>1. 1 .. n + 1 = (1 .. n) \cup {n + 1} BY <1>9
  <2>2. \A i \in 1 .. n : {<<i, f>> : f \in scans'[i].findings} = {<<i, f>> : f \in scans[i].findings} BY <1>10
  <2>3. {<<n + 1, f>> : f \in scans'[n + 1].findings} = new BY <1>1, <1>10, <1>12
  <2> QED BY <1>13, <1>16, <2>1, <2>2, <2>3
<1>18. FindingsInv'
  <2>1. \A k \in DOMAIN statuses' : statuses'[k] \in FindingStatuses BY <1>13, <1>14 DEF FindingStatuses
  <2> QED BY <1>15, <1>17, <2>1 DEF FindingsInv
<1>19. TriageStep
  <2>1. ASSUME NEW k \in DOMAIN statuses PROVE k \notin new
    <3>1. PICK i \in 1 .. n : \E f \in scans[i].findings : k = <<i, f>> BY <1>13
    <3>2. i # n + 1 BY <1>9
    <3> QED BY <1>12, <3>1, <3>2
  <2> QED BY <1>14, <2>1 DEF TriageStep
<1>20. ScanRunInv' /\ DecisionInv' /\ MonitoringInv' /\ gateMode' = gateMode /\ names' = names
  BY <1>2, <1>3 DEF SecurityInv, ScanRunInv, DecisionInv, MonitoringInv, EvaluateGate
<1> QED BY <1>11, <1>18, <1>19, <1>20 DEF SecurityInv

\* What a handler or a workflow does leaves the stores of the routes alone.
LEMMA RoutesUntouched ==
  ASSUME SecurityInv, UNCHANGED routeVars
  PROVE  ScansInv' /\ FindingsInv' /\ TriageStep /\ gateMode' = gateMode /\ names' = names
         /\ \A results : EvaluateGate(results)' = EvaluateGate(results)
<1>1. UNCHANGED <<gateMode, scans, statuses, policies, names>> BY DEF routeVars
<1>2. ScansInv' BY <1>1 DEF SecurityInv, ScansInv
<1>3. FindingsInv' BY <1>1 DEF SecurityInv, FindingsInv, KnownKeys
<1>4. TriageStep BY <1>1 DEF TriageStep
<1>5. \A results : EvaluateGate(results)' = EvaluateGate(results) BY <1>1 DEF EvaluateGate
<1> QED BY <1>1, <1>2, <1>3, <1>4, <1>5

\* A gate decides about one result.
LEMMA OneResultDecided ==
  ASSUME SecurityInv, NEW r, IsResult(r), decision' = EvaluateGate(<<r>>), UNCHANGED routeVars
  PROVE  DecisionInv'
<1>1. PICK results : results = <<r>> OBVIOUS
<1>2. \A i \in DOMAIN results : IsResult(results[i]) BY <1>1
<1>3. gateMode \in [enforce : BOOLEAN, block : BOOLEAN] BY DEF SecurityInv
<1>4. EvaluateGate(results).results = results BY <1>2, <1>3, GateSays
<1>5. decision' = EvaluateGate(results) /\ decision'.results = results BY <1>1, <1>4
<1>6. EvaluateGate(results)' = EvaluateGate(results) BY RoutesUntouched
<1>7. \A i \in DOMAIN decision'.results : IsResult(decision'.results[i]) BY <1>2, <1>5
<1>8. decision' = EvaluateGate(decision.results)' BY <1>5, <1>6
<1> QED BY <1>7, <1>8 DEF DecisionInv

LEMMA OldDecisionStands ==
  ASSUME SecurityInv, decision' = decision, UNCHANGED routeVars
  PROVE  DecisionInv'
<1>1. PICK results : results = decision.results OBVIOUS
<1>2. EvaluateGate(results)' = EvaluateGate(results) BY RoutesUntouched
<1>3. decision = EvaluateGate(results) /\ \A i \in DOMAIN results : IsResult(results[i])
  BY <1>1 DEF SecurityInv, DecisionInv
<1>4. decision' = EvaluateGate(decision.results)' BY <1>1, <1>2, <1>3
<1>5. \A i \in DOMAIN decision'.results : IsResult(decision'.results[i]) BY <1>1, <1>3
<1> QED BY <1>4, <1>5 DEF DecisionInv

\* The invariant after a step that leaves the routes' stores alone.
LEMMA UntouchedKeeps ==
  ASSUME SecurityInv, UNCHANGED routeVars, ScanRunInv', DecisionInv', MonitoringInv'
  PROVE  SecurityInv' /\ TriageStep
BY RoutesUntouched DEF SecurityInv

LEMMA SecurityStep ==
  ASSUME SecurityInv, [SecurityNext]_securityVars
  PROVE  SecurityInv' /\ TriageStep
<1> USE SecurityAssumption
<1>1. ASSUME NEW x, ScanCodeRoute(x) PROVE SecurityInv' /\ TriageStep
  BY <1>1, StoreKeeps DEF ScanCodeRoute
<1>2. ASSUME NEW x, ScanDependencies(x) PROVE SecurityInv' /\ TriageStep
  BY <1>2, StoreKeeps DEF ScanDependencies
<1>3. ASSUME NEW x, NEW d, ScanPrompt(x, d) PROVE SecurityInv' /\ TriageStep
  BY <1>3, StoreKeeps DEF ScanPrompt
<1>4. ASSUME NEW x, ScanActivity(x) PROVE SecurityInv' /\ TriageStep
  <2>1. PICK r : r = ScanResult("code_scan", ScanCode(x)) OBVIOUS
  <2>2. IsResult(r) BY <2>1, ResultIs
  <2>3. /\ scanRun' = [at |-> "scanned", result |-> r, allowed |-> TRUE]
        /\ decision' = decision /\ monitoring' = monitoring /\ UNCHANGED routeVars
    BY <1>4, <2>1 DEF ScanActivity
  <2>4. ScanRunInv' BY <2>2, <2>3 DEF ScanRunInv
  <2>5. MonitoringInv' BY <2>3 DEF SecurityInv, MonitoringInv
  <2> QED BY <2>3, <2>4, <2>5, OldDecisionStands, UntouchedKeeps
<1>5. ASSUME NEW x, HandleProposalCreated(x) PROVE SecurityInv' /\ TriageStep
  <2>1. PICK r : r = ScanResult("code_scan", ScanCode(x)) OBVIOUS
  <2>2. IsResult(r) BY <2>1, ResultIs
  <2>3. decision' = EvaluateGate(<<r>>) /\ scanRun' = scanRun /\ monitoring' = monitoring /\ UNCHANGED routeVars
    BY <1>5, <2>1 DEF HandleProposalCreated
  <2>4. ScanRunInv' BY <2>3 DEF SecurityInv, ScanRunInv
  <2>5. MonitoringInv' BY <2>3 DEF SecurityInv, MonitoringInv
  <2> QED BY <2>2, <2>3, <2>4, <2>5, OneResultDecided, UntouchedKeeps
<1>6. ASSUME NEW x, AuditActivity(x) \/ HandleSandboxCommand(x) PROVE SecurityInv' /\ TriageStep
  <2>1. decision' = decision /\ scanRun' = scanRun /\ monitoring' = monitoring /\ UNCHANGED routeVars
    BY <1>6 DEF AuditActivity, HandleSandboxCommand
  <2>2. ScanRunInv' BY <2>1 DEF SecurityInv, ScanRunInv
  <2>3. MonitoringInv' BY <2>1 DEF SecurityInv, MonitoringInv
  <2> QED BY <2>1, <2>2, <2>3, OldDecisionStands, UntouchedKeeps
<1>7. CASE GateActivity
  <2>1. PICK at, r, allowed : scanRun = [at |-> at, result |-> r, allowed |-> allowed] /\ IsResult(r)
    BY DEF SecurityInv, ScanRunInv
  <2>2. /\ decision' = EvaluateGate(<<r>>)
        /\ scanRun' = [scanRun EXCEPT !.at = "done", !.allowed = decision'.allowed]
        /\ monitoring' = monitoring /\ UNCHANGED routeVars
    BY <1>7, <2>1 DEF GateActivity
  <2>3. PICK ok : ok = decision'.allowed OBVIOUS
  <2>4. scanRun' = [at |-> "done", result |-> r, allowed |-> ok]
    <3>1. scanRun' = [scanRun EXCEPT !.at = "done", !.allowed = ok] BY <2>2, <2>3
    <3> QED BY <2>1, <3>1
  <2>5. ScanRunInv' BY <2>1, <2>4 DEF ScanRunInv
  <2>6. MonitoringInv' BY <2>2 DEF SecurityInv, MonitoringInv
  <2> QED BY <2>1, <2>2, <2>5, <2>6, OneResultDecided, UntouchedKeeps
<1>8. ASSUME NEW succeeds \in BOOLEAN, MonitoringTurn(succeeds) PROVE SecurityInv' /\ TriageStep
  <2>1. PICK i, t : i = monitoring.iterations /\ t = monitoring.scans OBVIOUS
  <2>2. i \in 0 .. MaxIterations /\ t \in Nat /\ t <= i BY <2>1 DEF SecurityInv, MonitoringInv
  <2>3. /\ i < MaxIterations /\ decision' = decision /\ scanRun' = scanRun /\ UNCHANGED routeVars
        /\ monitoring' = [iterations |-> i + 1, scans |-> t + IF succeeds THEN 1 ELSE 0,
                          completed |-> i + 1 = MaxIterations]
    BY <1>8, <2>1 DEF MonitoringTurn
  <2>4. monitoring'.iterations = i + 1 /\ monitoring'.scans \in {t, t + 1}
    <3>1. CASE succeeds BY <2>3, <3>1
    <3>2. CASE ~ succeeds BY <2>2, <2>3, <3>2
    <3> QED BY <3>1, <3>2
  <2>5. MonitoringInv' BY <2>2, <2>3, <2>4 DEF MonitoringInv
  <2>6. ScanRunInv' BY <2>3 DEF SecurityInv, ScanRunInv
  <2> QED BY <2>3, <2>5, <2>6, OldDecisionStands, UntouchedKeeps
<1>9. ASSUME NEW k \in DOMAIN statuses, NEW status \in FindingStatuses, UpdateFindingStatus(k, status)
      PROVE  SecurityInv' /\ TriageStep
  <2>1. /\ statuses' = [statuses EXCEPT ![k] = status] /\ scans' = scans /\ gateMode' = gateMode /\ names' = names
        /\ scanRun' = scanRun /\ decision' = decision /\ monitoring' = monitoring
    BY <1>9 DEF UpdateFindingStatus, scannerVars
  <2>2. DOMAIN statuses' = DOMAIN statuses BY <2>1
  <2>3. \A j \in DOMAIN statuses : statuses'[j] = IF j = k THEN status ELSE statuses[j]
    BY <2>1 DEF SecurityInv, FindingsInv
  <2>4. \A j \in DOMAIN statuses' : statuses'[j] \in FindingStatuses BY <2>2, <2>3 DEF SecurityInv, FindingsInv
  <2>5. KnownKeys' = KnownKeys BY <2>1 DEF KnownKeys
  <2>6. FindingsInv' BY <2>2, <2>4, <2>5 DEF SecurityInv, FindingsInv
  <2>7. ScansInv' BY <2>1 DEF SecurityInv, ScansInv
  <2>8. ScanRunInv' /\ MonitoringInv' BY <2>1 DEF SecurityInv, ScanRunInv, MonitoringInv
  <2>9. DecisionInv' BY <2>1 DEF SecurityInv, DecisionInv, EvaluateGate
  <2>10. TriageStep BY <2>1 DEF TriageStep
  <2> QED BY <2>1, <2>6, <2>7, <2>8, <2>9, <2>10 DEF SecurityInv
<1>10. ASSUME UNCHANGED <<gateMode, scans, statuses, names, scanRun, decision, monitoring>>
       PROVE  SecurityInv' /\ TriageStep
  <2>1. ScansInv' /\ ScanRunInv' /\ MonitoringInv' BY <1>10 DEF SecurityInv, ScansInv, ScanRunInv, MonitoringInv
  <2>2. FindingsInv' BY <1>10 DEF SecurityInv, FindingsInv, KnownKeys
  <2>3. DecisionInv' BY <1>10 DEF SecurityInv, DecisionInv, EvaluateGate
  <2>4. TriageStep BY <1>10 DEF TriageStep
  <2> QED BY <1>10, <2>1, <2>2, <2>3, <2>4 DEF SecurityInv
<1>11. CASE CreatePolicy
  <2>1. UNCHANGED <<gateMode, scans, statuses, names, scanRun, decision, monitoring>>
    BY <1>11 DEF CreatePolicy, scannerVars
  <2> QED BY <1>10, <2>1
<1>12. CASE UNCHANGED securityVars
  <2>1. UNCHANGED <<gateMode, scans, statuses, names, scanRun, decision, monitoring>>
    BY <1>12 DEF securityVars
  <2> QED BY <1>10, <2>1
<1>13. ASSUME NEW x, HandleProposalAccepted(x) PROVE SecurityInv' /\ TriageStep
  BY <1>5, <1>13 DEF HandleProposalAccepted
<1> QED BY <1>1, <1>2, <1>3, <1>4, <1>5, <1>6, <1>7, <1>8, <1>9, <1>11, <1>12, <1>13 DEF SecurityNext

\* Scans that pass together pass in every part.
LEMMA PartsPass ==
  ASSUME SecurityInv
  PROVE  GateIsMonotone
<1> SUFFICES ASSUME EvaluateGate(scans).allowed, NEW i \in DOMAIN scans, NEW j \in DOMAIN scans
             PROVE  EvaluateGate(SubSeq(scans, i, j)).allowed
  BY DEF GateIsMonotone
<1>1. PICK results : scans \in Seq(results) /\ \A r \in results : IsResult(r) BY DEF SecurityInv, ScansInv
<1>2. PICK n : n = Len(scans) OBVIOUS
<1>3. n \in Nat /\ DOMAIN scans = 1 .. n BY <1>1, <1>2, LenProperties
<1>4. \A k \in 1 .. n : scans[k] \in results BY <1>1, <1>2, <1>3, ElementOfSeq
<1>5. PICK part : part = SubSeq(scans, i, j) OBVIOUS
<1>6. i \in 1 .. n /\ j \in 1 .. n BY <1>3
<1>7. part \in Seq(results) /\ Len(part) = (IF i <= j THEN j - i + 1 ELSE 0)
      /\ \A k \in 1 .. j - i + 1 : part[k] = scans[i + k - 1]
  <2>1. i \in Int /\ j \in Int BY <1>3, <1>6
  <2>2. \A k \in i .. j : k \in 1 .. n BY <1>3, <1>6
  <2>3. \A k \in i .. j : scans[k] \in results BY <2>2, <1>4
  <2> QED BY <1>5, <2>1, <2>3, SubSeqProperties
<1>8. \A k \in DOMAIN part : i + k - 1 \in 1 .. n /\ part[k] = scans[i + k - 1]
  <2>1. DOMAIN part = 1 .. Len(part) BY <1>7, LenProperties
  <2>2. \A k \in DOMAIN part : k \in 1 .. j - i + 1 BY <1>6, <1>7, <2>1
  <2>3. \A k \in 1 .. j - i + 1 : i + k - 1 \in 1 .. n BY <1>3, <1>6
  <2> QED BY <1>7, <2>2, <2>3
<1>9. \A k \in DOMAIN part : IsResult(part[k]) BY <1>1, <1>4, <1>8
<1>10. \A k \in DOMAIN scans : IsResult(scans[k]) BY <1>1, <1>3, <1>4
<1>11. gateMode \in [enforce : BOOLEAN, block : BOOLEAN] BY DEF SecurityInv
<1>12. \A k \in DOMAIN scans : \A f \in scans[k].findings :
           /\ gateMode.enforce => f.severity \notin {"critical", "high"}
           /\ gateMode.block => f.severity # "critical"
  BY <1>10, <1>11, GateSays
<1>13. \A k \in DOMAIN part : \A f \in part[k].findings :
           /\ gateMode.enforce => f.severity \notin {"critical", "high"}
           /\ gateMode.block => f.severity # "critical"
  BY <1>3, <1>8, <1>12
<1>14. EvaluateGate(part).allowed BY <1>9, <1>11, <1>13, GateSays
<1> QED BY <1>5, <1>14

LEMMA AllowedSays ==
  ASSUME SecurityInv
  PROVE  AllowedIsClean /\ decision.action \in {"block", "warn", "log"} /\ decision.allowed \in BOOLEAN
<1>1. PICK results : results = decision.results OBVIOUS
<1>2. decision = EvaluateGate(results) /\ \A i \in DOMAIN results : IsResult(results[i])
      /\ gateMode \in [enforce : BOOLEAN, block : BOOLEAN]
  BY <1>1 DEF SecurityInv, DecisionInv
<1>3. decision.action \in {"block", "warn", "log"} /\ decision.allowed \in BOOLEAN
  <2>1. \A i \in DOMAIN results : IsResult(results[i]) BY <1>2
  <2>2. gateMode \in [enforce : BOOLEAN, block : BOOLEAN] BY DEF SecurityInv
  <2>3. EvaluateGate(results).action \in {"block", "warn", "log"} BY <2>1, <2>2, GateSays
  <2>4. EvaluateGate(results).allowed \in BOOLEAN BY <2>1, <2>2, GateSays
  <2> QED BY <1>2, <2>3, <2>4
<1>4. decision.allowed =>
        \A i \in DOMAIN results : \A f \in results[i].findings :
            /\ gateMode.enforce => f.severity \notin {"critical", "high"}
            /\ gateMode.block => f.severity # "critical"
  BY <1>2, GateSays
<1>5. AllowedIsClean
  <2> DEFINE severities == {f.severity : f \in UNION {results[i].findings : i \in DOMAIN results}}
  <2>1. \A s \in severities : \E i \in DOMAIN results : \E f \in results[i].findings : s = f.severity OBVIOUS
  <2> HIDE DEF severities
  <2>2. decision.allowed => /\ gateMode.enforce => severities \cap {"critical", "high"} = {}
                            /\ gateMode.block => "critical" \notin severities
    BY <1>4, <2>1
  <2> QED BY <1>1, <2>2 DEF AllowedIsClean, severities
<1> QED BY <1>3, <1>5

LEMMA SecurityTypes ==
  ASSUME SecurityInv
  PROVE  SecurityTypeOK
<1>1. PICK results : scans \in Seq(results) /\ \A r \in results : IsResult(r) BY DEF SecurityInv, ScansInv
<1>2. \A i \in DOMAIN scans : IsResult(scans[i]) BY <1>1, LenProperties, ElementOfSeq
<1>3. \A i \in DOMAIN scans : scans[i].verdict \in {"pass", "warn", "fail"} BY <1>2, VerdictSays
<1> QED BY <1>3, AllowedSays DEF SecurityInv, FindingsInv, KnownKeys, MonitoringInv, SecurityTypeOK

-----------------------------------------------------------------------------
\* Distances of names: the rows of _levenshtein_distance.

Words(n) == [1 .. n -> Letters]
IsLeast(m, x, y, z) == m <= x /\ m <= y /\ m <= z /\ (m = x \/ m = y \/ m = z)
Cost(a, i, b, j) == IF a[i] = b[j] THEN 0 ELSE 1

\* t[i][j] is what it costs to make the first j letters of b of the first i of a.
IsTable(t, a, p, b, q) ==
    /\ \A i \in 0 .. p : \A j \in 0 .. q : t[i][j] \in Nat
    /\ \A j \in 0 .. q : t[0][j] = j
    /\ \A i \in 0 .. p : t[i][0] = i
    /\ \A i \in 1 .. p : \A j \in 1 .. q :
         IsLeast(t[i][j], t[i - 1][j] + 1, t[i][j - 1] + 1, t[i - 1][j - 1] + Cost(a, i, b, j))

LEMMA MinOfThree ==
  ASSUME NEW x \in Int, NEW y \in Int, NEW z \in Int
  PROVE  IsLeast(Min({x, y, z}), x, y, z)
<1> DEFINE S == {x, y, z}
<1>1. \E m \in S : \A k \in S : m <= k
  <2>1. CASE x <= y /\ x <= z BY <2>1
  <2>2. CASE y <= x /\ y <= z BY <2>2
  <2>3. CASE z <= x /\ z <= y BY <2>3
  <2> QED BY <2>1, <2>2, <2>3
<1>2. Min(S) \in S /\ \A k \in S : Min(S) <= k BY <1>1 DEF Min
<1> QED BY <1>2 DEF IsLeast

\* A function can be defined by a step from one number to the next.
FollowsSteps(f, n, v, F) == f = [j \in 0 .. n |-> IF j = 0 THEN v ELSE F[<<j, f[j - 1]>>]]

LEMMA StepsExist ==
  ASSUME NEW V, NEW n \in Nat, NEW v \in V, NEW F \in [(1 .. n) \X V -> V]
  PROVE  \E f \in [0 .. n -> V] : FollowsSteps(f, n, v, F)
<1> DEFINE Bad == {m \in 0 .. n : ~ \E f \in [0 .. m -> V] : FollowsSteps(f, m, v, F)}
<1>1. Bad = {}
  <2> SUFFICES ASSUME Bad # {} PROVE FALSE OBVIOUS
  <2>0. Bad \subseteq Nat OBVIOUS
  <2>1. PICK m \in Bad : \A k \in Bad : m <= k BY <2>0, LeastOf
  <2>2. m \in 0 .. n /\ ~ \E f \in [0 .. m -> V] : FollowsSteps(f, m, v, F) BY <2>1
  <2>3. CASE m = 0
    <3>1. PICK f : f = [j \in 0 .. 0 |-> v] OBVIOUS
    <3>2. f \in [0 .. 0 -> V] BY <3>1
    <3>3. \A j \in 0 .. 0 : j = 0 OBVIOUS
    <3>4. f = [j \in 0 .. 0 |-> IF j = 0 THEN v ELSE F[<<j, f[j - 1]>>]] BY <3>1, <3>3
    <3> QED BY <2>2, <2>3, <3>2, <3>4 DEF FollowsSteps
  <2>4. CASE m # 0
    <3>1. m - 1 \in 0 .. n /\ m - 1 < m /\ m \in 1 .. n /\ m \in Nat BY <2>2, <2>4
    <3>2. PICK g \in [0 .. m - 1 -> V] : FollowsSteps(g, m - 1, v, F)
      <4>1. m - 1 \notin Bad BY <3>1, <2>1, <2>0
      <4> QED BY <3>1, <4>1
    <3>3. PICK w : w = F[<<m, g[m - 1]>>] OBVIOUS
    <3>4. w \in V BY <3>1, <3>2, <3>3
    <3>5. PICK f : f = [j \in 0 .. m |-> IF j = m THEN w ELSE g[j]] OBVIOUS
    <3>6. f \in [0 .. m -> V] BY <3>1, <3>2, <3>4, <3>5
    <3>7. \A j \in 0 .. m : f[j] = IF j = 0 THEN v ELSE F[<<j, f[j - 1]>>]
      <4> SUFFICES ASSUME NEW j \in 0 .. m PROVE f[j] = IF j = 0 THEN v ELSE F[<<j, f[j - 1]>>]
        OBVIOUS
      <4>1. CASE j = m
        <5>1. f[m] = w /\ m - 1 \in 0 .. m /\ m - 1 # m BY <3>1, <3>5
        <5>2. f[m - 1] = g[m - 1] BY <5>1, <3>5
        <5> QED BY <4>1, <5>1, <5>2, <3>3, <2>4
      <4>2. CASE j # m
        <5>1. j \in 0 .. m - 1 /\ f[j] = g[j] BY <4>2, <3>1, <3>5
        <5>2. g[j] = IF j = 0 THEN v ELSE F[<<j, g[j - 1]>>] BY <3>2, <5>1 DEF FollowsSteps
        <5>3. CASE j = 0 BY <5>1, <5>2, <5>3
        <5>4. CASE j # 0
          <6>1. j - 1 \in 0 .. m /\ j - 1 # m BY <5>1, <5>4, <3>1
          <6>2. f[j - 1] = g[j - 1] BY <6>1, <3>5
          <6> QED BY <5>1, <5>2, <5>4, <6>2
        <5> QED BY <5>3, <5>4
      <4> QED BY <4>1, <4>2
    <3>8. FollowsSteps(f, m, v, F)
      <4>1. DOMAIN f = 0 .. m BY <3>6
      <4>2. f = [j \in 0 .. m |-> f[j]] BY <3>6
      <4> QED BY <3>7, <4>2 DEF FollowsSteps
    <3> QED BY <2>2, <3>6, <3>8
  <2> QED BY <2>3, <2>4
<1>2. n \in 0 .. n OBVIOUS
<1> QED BY <1>1, <1>2

LEMMA WordLength ==
  ASSUME NEW n \in Nat, NEW w \in Words(n)
  PROVE  w \in Seq(Letters) /\ Len(w) = n
<1>1. w \in Seq(Letters) BY SeqDef DEF Words
<1>2. Len(w) \in Nat /\ DOMAIN w = 1 .. Len(w) BY <1>1, LenProperties
<1>3. DOMAIN w = 1 .. n BY DEF Words
<1>4. PICK k : k = Len(w) OBVIOUS
<1>5. k \in Nat /\ 1 .. n = 1 .. k BY <1>2, <1>3, <1>4
<1>6. k <= n
  <2>1. CASE k = 0 BY <2>1
  <2>2. CASE k # 0
    <3>1. k \in 1 .. k BY <1>5, <2>2
    <3>2. k \in 1 .. n BY <1>5, <3>1
    <3> QED BY <3>2
  <2> QED BY <2>1, <2>2
<1>7. n <= k
  <2>1. CASE n = 0 BY <2>1, <1>5
  <2>2. CASE n # 0
    <3>1. n \in 1 .. n BY <2>2
    <3>2. n \in 1 .. k BY <1>5, <3>1
    <3> QED BY <3>2
  <2> QED BY <2>1, <2>2
<1>8. k = n BY <1>5, <1>6, <1>7
<1> QED BY <1>1, <1>4, <1>8

LEMMA RowIs ==
  ASSUME NEW q \in Nat, NEW previous \in [0 .. q -> Nat], NEW i \in Nat, NEW x, NEW y, Len(y) = q
  PROVE  /\ NextRow(previous, i, x, y) \in [0 .. q -> Nat]
         /\ NextRow(previous, i, x, y)[0] = i
         /\ \A j \in 1 .. q :
              IsLeast(NextRow(previous, i, x, y)[j], previous[j] + 1, NextRow(previous, i, x, y)[j - 1] + 1,
                      previous[j - 1] + Cost(x, i, y, j))
<1> DEFINE R(g, j) == IF j = 0 THEN i
          ELSE Min({previous[j] + 1, g[j - 1] + 1,
                    previous[j - 1] + IF x[i] = y[j] THEN 0 ELSE 1})
           row == CHOOSE g : g = [j \in 0 .. q |-> R(g, j)]
           c(j) == Cost(x, i, y, j)
<1>1. NextRow(previous, i, x, y) = row BY DEF NextRow
<1>2. PICK F : F = [jw \in (1 .. q) \X Nat |-> Min({previous[jw[1]] + 1, jw[2] + 1, previous[jw[1] - 1] + c(jw[1])})]
  OBVIOUS
<1>3. \A j \in 1 .. q : previous[j] \in Nat /\ previous[j - 1] \in Nat /\ c(j) \in Nat
  <2> SUFFICES ASSUME NEW j \in 1 .. q PROVE previous[j] \in Nat /\ previous[j - 1] \in Nat /\ c(j) \in Nat
    OBVIOUS
  <2>1. j \in 0 .. q /\ j - 1 \in 0 .. q OBVIOUS
  <2>2. c(j) \in Nat BY DEF Cost
  <2> QED BY <2>1, <2>2
<1>4. \A j \in 1 .. q : \A w \in Nat :
        /\ F[<<j, w>>] = Min({previous[j] + 1, w + 1, previous[j - 1] + c(j)})
        /\ IsLeast(F[<<j, w>>], previous[j] + 1, w + 1, previous[j - 1] + c(j))
        /\ F[<<j, w>>] \in Nat
  <2> HIDE DEF c
  <2> SUFFICES ASSUME NEW j \in 1 .. q, NEW w \in Nat
               PROVE  /\ F[<<j, w>>] = Min({previous[j] + 1, w + 1, previous[j - 1] + c(j)})
                      /\ IsLeast(F[<<j, w>>], previous[j] + 1, w + 1, previous[j - 1] + c(j))
                      /\ F[<<j, w>>] \in Nat
    OBVIOUS
  <2>1. F[<<j, w>>] = Min({previous[j] + 1, w + 1, previous[j - 1] + c(j)}) BY <1>2
  <2>2. PICK k1, k2, k3 : k1 = previous[j] + 1 /\ k2 = w + 1 /\ k3 = previous[j - 1] + c(j) OBVIOUS
  <2>3. k1 \in Nat /\ k2 \in Nat /\ k3 \in Nat BY <1>3, <2>2
  <2>4. IsLeast(Min({k1, k2, k3}), k1, k2, k3) BY <2>3, MinOfThree
  <2>5. Min({k1, k2, k3}) \in Nat BY <2>3, <2>4 DEF IsLeast
  <2> QED BY <2>1, <2>2, <2>4, <2>5
<1>5. F \in [(1 .. q) \X Nat -> Nat]
  <2> HIDE DEF c
  <2>1. DOMAIN F = (1 .. q) \X Nat BY <1>2
  <2>2. F = [jw \in (1 .. q) \X Nat |-> F[jw]] BY <1>2
  <2>3. ASSUME NEW jw \in (1 .. q) \X Nat PROVE F[jw] \in Nat
    <3>1. PICK j \in 1 .. q, w \in Nat : jw = <<j, w>> OBVIOUS
    <3> QED BY <3>1, <1>4
  <2> QED BY <2>2, <2>3
<1>6. PICK f \in [0 .. q -> Nat] : FollowsSteps(f, q, i, F) BY <1>5, StepsExist
<1>7. \A j \in 0 .. q : f[j] = R(f, j)
  <2> SUFFICES ASSUME NEW j \in 0 .. q PROVE f[j] = R(f, j) OBVIOUS
  <2>1. f[j] = IF j = 0 THEN i ELSE F[<<j, f[j - 1]>>] BY <1>6 DEF FollowsSteps
  <2>2. CASE j = 0 BY <2>1, <2>2
  <2>3. CASE j # 0
    <3>1. j \in 1 .. q /\ j - 1 \in 0 .. q BY <2>3
    <3>2. f[j - 1] \in Nat BY <3>1
    <3>3. F[<<j, f[j - 1]>>] = Min({previous[j] + 1, f[j - 1] + 1, previous[j - 1] + c(j)}) BY <3>1, <3>2, <1>4
    <3> QED BY <2>1, <2>3, <3>3 DEF Cost
  <2> QED BY <2>2, <2>3
<1>8. f = [j \in 0 .. q |-> R(f, j)]
  <2>1. f = [j \in 0 .. q |-> f[j]] OBVIOUS
  <2> HIDE DEF R
  <2> QED BY <2>1, <1>7
<1> HIDE DEF c
<1>9. row = [j \in 0 .. q |-> R(row, j)]
  <2> HIDE DEF R
  <2> QED BY <1>8
<1> HIDE DEF row
<1>10. row[0] = i /\ \A j \in 1 .. q :
          row[j] = Min({previous[j] + 1, row[j - 1] + 1, previous[j - 1] + c(j)})
  <2>1. \A j \in 0 .. q : row[j] = R(row, j)
    <3> HIDE DEF R
    <3> QED BY <1>9
  <2>2. 0 \in 0 .. q /\ \A j \in 1 .. q : j \in 0 .. q /\ j # 0 OBVIOUS
  <2> QED BY <2>1, <2>2 DEF c, Cost
<1>11. DOMAIN row = 0 .. q /\ row = [j \in 0 .. q |-> row[j]]
  <2> HIDE DEF R
  <2> QED BY <1>9
<1>12. \A j \in 0 .. q : row[j] \in Nat
  <2> DEFINE Bad == {j \in 0 .. q : row[j] \notin Nat}
  <2> SUFFICES ASSUME Bad # {} PROVE FALSE OBVIOUS
  <2>0. Bad \subseteq Nat OBVIOUS
  <2>1. PICK j \in Bad : \A k \in Bad : j <= k BY <2>0, LeastOf
  <2>2. j \in 0 .. q /\ row[j] \notin Nat BY <2>1
  <2>3. j # 0 BY <2>2, <1>10
  <2>4. j \in 1 .. q /\ j - 1 \in 0 .. q /\ ~ (j <= j - 1) BY <2>2, <2>3
  <2>5. row[j - 1] \in Nat BY <2>4, <2>1
  <2>6. row[j] = F[<<j, row[j - 1]>>] BY <2>4, <2>5, <1>4, <1>10
  <2> QED BY <2>2, <2>4, <2>5, <2>6, <1>4
<1>13. \A j \in 1 .. q : IsLeast(row[j], previous[j] + 1, row[j - 1] + 1, previous[j - 1] + c(j))
  <2> SUFFICES ASSUME NEW j \in 1 .. q
               PROVE  IsLeast(row[j], previous[j] + 1, row[j - 1] + 1, previous[j - 1] + c(j))
    OBVIOUS
  <2>1. j - 1 \in 0 .. q OBVIOUS
  <2>2. row[j - 1] \in Nat BY <2>1, <1>12
  <2>3. row[j] = F[<<j, row[j - 1]>>] BY <2>2, <1>4, <1>10
  <2> QED BY <2>2, <2>3, <1>4
<1> QED BY <1>1, <1>10, <1>11, <1>12, <1>13 DEF c

\* The rows for a longer and a shorter name are a table of the two.
LastOfRows(x, y) ==
    LET r[i \in 0 .. Len(x)] ==
          IF i = 0 THEN [j \in 0 .. Len(y) |-> j] ELSE NextRow(r[i - 1], i, x, y)
    IN r[Len(x)][Len(y)]

LEMMA RowsAre ==
  ASSUME NEW p \in Nat, NEW q \in Nat, NEW x, NEW y, Len(y) = q, Len(x) = p
  PROVE  \E rows : /\ IsTable(rows, x, p, y, q)
                   /\ rows[p][q] = LastOfRows(x, y)
<1> DEFINE V == [0 .. q -> Nat]
           v0 == [j \in 0 .. q |-> j]
           R(g, i) == IF i = 0 THEN v0 ELSE NextRow(g[i - 1], i, x, y)
           rows == CHOOSE g : g = [i \in 0 .. p |-> R(g, i)]
<1>0. rows[p][q] = LastOfRows(x, y) BY DEF LastOfRows
<1>1. v0 \in V OBVIOUS
<1>2. PICK F : F = [iw \in (1 .. p) \X V |-> NextRow(iw[2], iw[1], x, y)] OBVIOUS
<1> HIDE DEF v0
<1>3. \A i \in 1 .. p : \A w \in V : F[<<i, w>>] = NextRow(w, i, x, y) /\ NextRow(w, i, x, y) \in V
  <2> SUFFICES ASSUME NEW i \in 1 .. p, NEW w \in V
               PROVE F[<<i, w>>] = NextRow(w, i, x, y) /\ NextRow(w, i, x, y) \in V
    OBVIOUS
  <2>1. NextRow(w, i, x, y) \in V BY RowIs
  <2> HIDE DEF V
  <2>2. F[<<i, w>>] = NextRow(w, i, x, y) BY <1>2
  <2> QED BY <2>1, <2>2
<1> HIDE DEF V
<1>4. F \in [(1 .. p) \X V -> V]
  <2>1. F = [iw \in (1 .. p) \X V |-> F[iw]] BY <1>2
  <2>2. ASSUME NEW iw \in (1 .. p) \X V PROVE F[iw] \in V
    <3>1. PICK i \in 1 .. p, w \in V : iw = <<i, w>> OBVIOUS
    <3> QED BY <3>1, <1>3
  <2> QED BY <2>1, <2>2
<1>5. PICK f \in [0 .. p -> V] : FollowsSteps(f, p, v0, F) BY <1>1, <1>4, StepsExist
<1>6. \A i \in 0 .. p : f[i] = R(f, i)
  <2> SUFFICES ASSUME NEW i \in 0 .. p PROVE f[i] = R(f, i) OBVIOUS
  <2>1. f[i] = IF i = 0 THEN v0 ELSE F[<<i, f[i - 1]>>] BY <1>5 DEF FollowsSteps
  <2>2. CASE i = 0 BY <2>1, <2>2
  <2>3. CASE i # 0
    <3>1. i \in 1 .. p /\ i - 1 \in 0 .. p BY <2>3
    <3>2. f[i - 1] \in V BY <3>1
    <3>3. F[<<i, f[i - 1]>>] = NextRow(f[i - 1], i, x, y) BY <3>1, <3>2, <1>3
    <3> QED BY <2>1, <2>3, <3>3
  <2> QED BY <2>2, <2>3
<1>7. f = [i \in 0 .. p |-> R(f, i)]
  <2>1. f = [i \in 0 .. p |-> f[i]] OBVIOUS
  <2> HIDE DEF R
  <2> QED BY <2>1, <1>6
<1>8. rows = [i \in 0 .. p |-> R(rows, i)]
  <2> HIDE DEF R
  <2> QED BY <1>7
<1>9. rows[0] = v0 /\ \A i \in 1 .. p : rows[i] = NextRow(rows[i - 1], i, x, y)
  <2>1. \A i \in 0 .. p : rows[i] = R(rows, i)
    <3> HIDE DEF R, rows
    <3> QED BY <1>8
  <2>2. 0 \in 0 .. p /\ \A i \in 1 .. p : i \in 0 .. p /\ i # 0 OBVIOUS
  <2> HIDE DEF rows
  <2> QED BY <2>1, <2>2
<1>10. PICK t : t = rows OBVIOUS
<1> HIDE DEF rows
<1>11. t[0] = v0 /\ \A i \in 1 .. p : t[i] = NextRow(t[i - 1], i, x, y) BY <1>9, <1>10
<1>12. \A i \in 0 .. p : t[i] \in V
  <2> DEFINE Bad == {i \in 0 .. p : t[i] \notin V}
  <2> SUFFICES ASSUME Bad # {} PROVE FALSE OBVIOUS
  <2>0. Bad \subseteq Nat OBVIOUS
  <2>1. PICK i \in Bad : \A k \in Bad : i <= k BY <2>0, LeastOf
  <2>2. i \in 0 .. p /\ t[i] \notin V BY <2>1
  <2>3. i # 0 BY <2>2, <1>11, <1>1
  <2>4. i \in 1 .. p /\ i - 1 \in 0 .. p /\ ~ (i <= i - 1) BY <2>2, <2>3
  <2>5. t[i - 1] \in V BY <2>4, <2>1
  <2> QED BY <2>2, <2>4, <2>5, <1>3, <1>11
<1>13. \A i \in 0 .. p : \A j \in 0 .. q : t[i][j] \in Nat BY <1>12 DEF V
<1>14. \A j \in 0 .. q : t[0][j] = j BY <1>11 DEF v0
<1>15. \A i \in 0 .. p : t[i][0] = i
  <2> SUFFICES ASSUME NEW i \in 0 .. p PROVE t[i][0] = i OBVIOUS
  <2>1. CASE i = 0 BY <2>1, <1>14
  <2>2. CASE i # 0
    <3>1. i \in 1 .. p /\ i - 1 \in 0 .. p /\ i \in Nat BY <2>2
    <3>2. PICK previous \in [0 .. q -> Nat] : previous = t[i - 1] BY <3>1, <1>12 DEF V
    <3>3. NextRow(previous, i, x, y)[0] = i BY <3>1, RowIs
    <3> QED BY <3>1, <3>2, <3>3, <1>11
  <2> QED BY <2>1, <2>2
<1>16. \A i \in 1 .. p : \A j \in 1 .. q :
         IsLeast(t[i][j], t[i - 1][j] + 1, t[i][j - 1] + 1, t[i - 1][j - 1] + Cost(x, i, y, j))
  <2> SUFFICES ASSUME NEW i \in 1 .. p
               PROVE  \A j \in 1 .. q :
         IsLeast(t[i][j], t[i - 1][j] + 1, t[i][j - 1] + 1, t[i - 1][j - 1] + Cost(x, i, y, j))
    OBVIOUS
  <2>1. i - 1 \in 0 .. p /\ i \in Nat OBVIOUS
  <2>2. PICK previous \in [0 .. q -> Nat] : previous = t[i - 1] BY <2>1, <1>12 DEF V
  <2>3. t[i] = NextRow(previous, i, x, y) BY <2>2, <1>11
  <2>4. \A j \in 1 .. q :
              IsLeast(NextRow(previous, i, x, y)[j], previous[j] + 1, NextRow(previous, i, x, y)[j - 1] + 1,
                      previous[j - 1] + Cost(x, i, y, j))
    BY <2>1, RowIs
  <2> QED BY <2>2, <2>3, <2>4
<1>17. IsTable(t, x, p, y, q) BY <1>13, <1>14, <1>15, <1>16 DEF IsTable
<1> QED BY <1>0, <1>10, <1>17

\* The distance the code returns is the last entry of a table of the two names.
LEMMA DistanceIsOfATable ==
  ASSUME NEW p \in Nat, NEW q \in Nat, NEW a \in Words(p), NEW b \in Words(q)
  PROVE  \E t : IsTable(t, a, p, b, q) /\ LevenshteinDistance(a, b) = t[p][q]
<1>1. Len(a) = p /\ Len(b) = q BY WordLength
<1>2. CASE ~ (p < q)
  <2>1. LevenshteinDistance(a, b) = LastOfRows(a, b)
    BY <1>1, <1>2 DEF LevenshteinDistance, LastOfRows
  <2>2. PICK t : IsTable(t, a, p, b, q) /\ t[p][q] = LastOfRows(a, b)
    BY <1>1, RowsAre
  <2> QED BY <2>1, <2>2
<1>3. CASE p < q
  <2>1. LevenshteinDistance(a, b) = LastOfRows(b, a)
    BY <1>1, <1>3 DEF LevenshteinDistance, LastOfRows
  <2>2. PICK t : IsTable(t, b, q, a, p) /\ t[q][p] = LastOfRows(b, a)
    BY <1>1, RowsAre
  <2>3. PICK s : s = [i \in 0 .. p |-> [j \in 0 .. q |-> t[j][i]]] OBVIOUS
  <2>4. \A i \in 0 .. p : \A j \in 0 .. q : s[i][j] = t[j][i] BY <2>3
  <2>5. 0 \in 0 .. p /\ 0 \in 0 .. q /\ p \in 0 .. p /\ q \in 0 .. q OBVIOUS
  <2>6. \A i \in 0 .. p : \A j \in 0 .. q : s[i][j] \in Nat BY <2>2, <2>4 DEF IsTable
  <2>7. \A j \in 0 .. q : s[0][j] = j BY <2>2, <2>4, <2>5 DEF IsTable
  <2>8. \A i \in 0 .. p : s[i][0] = i BY <2>2, <2>4, <2>5 DEF IsTable
  <2>9. ASSUME NEW i \in 1 .. p, NEW j \in 1 .. q
        PROVE  IsLeast(s[i][j], s[i - 1][j] + 1, s[i][j - 1] + 1, s[i - 1][j - 1] + Cost(a, i, b, j))
    <3>1. i \in 0 .. p /\ i - 1 \in 0 .. p /\ j \in 0 .. q /\ j - 1 \in 0 .. q OBVIOUS
    <3>2. s[i][j] = t[j][i] /\ s[i - 1][j] = t[j][i - 1] /\ s[i][j - 1] = t[j - 1][i] /\ s[i - 1][j - 1] = t[j - 1][i - 1]
      BY <3>1, <2>4
    <3>3. IsLeast(t[j][i], t[j - 1][i] + 1, t[j][i - 1] + 1, t[j - 1][i - 1] + Cost(b, j, a, i)) BY <2>2 DEF IsTable
    <3>4. Cost(b, j, a, i) = Cost(a, i, b, j) BY DEF Cost
    <3> QED BY <3>2, <3>3, <3>4 DEF IsLeast
  <2>10. IsTable(s, a, p, b, q) BY <2>6, <2>7, <2>8, <2>9 DEF IsTable
  <2> QED BY <2>1, <2>2, <2>4, <2>5, <2>10
<1> QED BY <1>2, <1>3

\* Columns of a table that are next to each other differ by at most one.
LEMMA ColumnsAreClose ==
  ASSUME NEW p \in Nat, NEW q \in Nat, NEW a, NEW b, NEW t, IsTable(t, a, p, b, q),
         NEW i \in 0 .. p, NEW j \in 1 .. q
  PROVE  t[i][j] <= t[i][j - 1] + 1 /\ t[i][j - 1] <= t[i][j] + 1
<1>1. \A k \in 0 .. p : t[k][j] \in Nat /\ t[k][j - 1] \in Nat
  <2>1. j \in 0 .. q /\ j - 1 \in 0 .. q OBVIOUS
  <2> QED BY <2>1 DEF IsTable
<1>2. \A k \in 1 .. p : IsLeast(t[k][j], t[k - 1][j] + 1, t[k][j - 1] + 1, t[k - 1][j - 1] + Cost(a, k, b, j))
  BY DEF IsTable
<1>3. \A k \in 1 .. p : Cost(a, k, b, j) \in 0 .. 1 BY DEF Cost
<1>4. t[0][j] = j /\ t[0][j - 1] = j - 1
  <2>1. j \in 0 .. q /\ j - 1 \in 0 .. q OBVIOUS
  <2> QED BY <2>1 DEF IsTable
<1>5. \A k \in 1 .. p : t[k][j - 1] <= t[k - 1][j - 1] + 1
  <2> SUFFICES ASSUME NEW k \in 1 .. p PROVE t[k][j - 1] <= t[k - 1][j - 1] + 1 OBVIOUS
  <2>1. CASE j = 1
    <3>1. k \in 0 .. p /\ k - 1 \in 0 .. p OBVIOUS
    <3>2. t[k][0] = k /\ t[k - 1][0] = k - 1 BY <3>1 DEF IsTable
    <3> QED BY <3>2, <2>1
  <2>2. CASE j # 1
    <3>1. j - 1 \in 1 .. q BY <2>2
    <3>2. t[k][j - 1] <= t[k - 1][j - 1] + 1 BY <3>1 DEF IsTable, IsLeast
    <3> QED BY <3>2
  <2> QED BY <2>1, <2>2
<1>6. \A k \in 0 .. p : t[k][j] <= t[k][j - 1] + 1
  <2> SUFFICES ASSUME NEW k \in 0 .. p PROVE t[k][j] <= t[k][j - 1] + 1 OBVIOUS
  <2>1. CASE k = 0 BY <2>1, <1>4
  <2>2. CASE k # 0
    <3>1. k \in 1 .. p BY <2>2
    <3> QED BY <3>1, <1>2 DEF IsLeast
  <2> QED BY <2>1, <2>2
<1>7. \A k \in 0 .. p : t[k][j - 1] <= t[k][j] + 1
  <2> DEFINE Bad == {k \in 0 .. p : ~ (t[k][j - 1] <= t[k][j] + 1)}
  <2> SUFFICES ASSUME Bad # {} PROVE FALSE OBVIOUS
  <2>0. Bad \subseteq Nat OBVIOUS
  <2>1. PICK k \in Bad : \A l \in Bad : k <= l BY <2>0, LeastOf
  <2>2. k \in 0 .. p /\ ~ (t[k][j - 1] <= t[k][j] + 1) BY <2>1
  <2>3. k # 0 BY <2>2, <1>4
  <2>4. k \in 1 .. p /\ k - 1 \in 0 .. p /\ ~ (k <= k - 1) BY <2>2, <2>3
  <2>5. t[k - 1][j - 1] <= t[k - 1][j] + 1 BY <2>4, <2>1
  <2>6. t[k][j - 1] <= t[k - 1][j - 1] + 1 BY <2>4, <1>5
  <2>7. IsLeast(t[k][j], t[k - 1][j] + 1, t[k][j - 1] + 1, t[k - 1][j - 1] + Cost(a, k, b, j)) BY <2>4, <1>2
  <2>8. t[k - 1][j] \in Nat /\ t[k - 1][j - 1] \in Nat /\ t[k][j] \in Nat /\ t[k][j - 1] \in Nat
        /\ Cost(a, k, b, j) \in 0 .. 1
    BY <2>4, <2>2, <1>1, <1>3
  <2> QED BY <2>2, <2>5, <2>6, <2>7, <2>8 DEF IsLeast
<1> QED BY <1>6, <1>7

\* Induction over the cells of a table.
GridHolds(G, p, q) ==
    \A i \in 0 .. p : \A j \in 0 .. q :
      (\A k \in 0 .. p : \A l \in 0 .. q : k + l < i + j => <<k, l>> \in G) => <<i, j>> \in G

LEMMA GridInduction ==
  ASSUME NEW p \in Nat, NEW q \in Nat, NEW G, GridHolds(G, p, q)
  PROVE  \A i \in 0 .. p : \A j \in 0 .. q : <<i, j>> \in G
<1> DEFINE Bad == {n \in Nat : \E i \in 0 .. p : \E j \in 0 .. q : n = i + j /\ <<i, j>> \notin G}
<1>1. Bad = {}
  <2> SUFFICES ASSUME Bad # {} PROVE FALSE OBVIOUS
  <2>0. Bad \subseteq Nat OBVIOUS
  <2>1. PICK n \in Bad : \A m \in Bad : n <= m BY <2>0, LeastOf
  <2>2. PICK i \in 0 .. p : \E j \in 0 .. q : n = i + j /\ <<i, j>> \notin G BY <2>1
  <2>3. PICK j \in 0 .. q : n = i + j /\ <<i, j>> \notin G BY <2>2
  <2>4. ASSUME NEW k \in 0 .. p, NEW l \in 0 .. q, k + l < i + j PROVE <<k, l>> \in G
    <3>1. k + l \in Nat /\ ~ (n <= k + l) BY <2>3, <2>4
    <3>2. k + l \notin Bad BY <3>1, <2>1
    <3> QED BY <3>1, <3>2
  <2> QED BY <2>3, <2>4 DEF GridHolds
<1> SUFFICES ASSUME NEW i \in 0 .. p, NEW j \in 0 .. q PROVE <<i, j>> \in G OBVIOUS
<1>2. i + j \in Nat OBVIOUS
<1> QED BY <1>1, <1>2

\* What a table says of one cell.
LEMMA TableCell ==
  ASSUME NEW p \in Nat, NEW q \in Nat, NEW a, NEW b, NEW t, IsTable(t, a, p, b, q),
         NEW i \in 1 .. p, NEW j \in 1 .. q
  PROVE  /\ i \in 0 .. p /\ i - 1 \in 0 .. p /\ j \in 0 .. q /\ j - 1 \in 0 .. q
         /\ t[i][j] \in Nat /\ t[i - 1][j] \in Nat /\ t[i][j - 1] \in Nat /\ t[i - 1][j - 1] \in Nat
         /\ Cost(a, i, b, j) \in 0 .. 1
         /\ IsLeast(t[i][j], t[i - 1][j] + 1, t[i][j - 1] + 1, t[i - 1][j - 1] + Cost(a, i, b, j))
<1>1. i \in 0 .. p /\ i - 1 \in 0 .. p /\ j \in 0 .. q /\ j - 1 \in 0 .. q OBVIOUS
<1>2. t[i][j] \in Nat /\ t[i - 1][j] \in Nat /\ t[i][j - 1] \in Nat /\ t[i - 1][j - 1] \in Nat BY <1>1 DEF IsTable
<1>3. Cost(a, i, b, j) \in 0 .. 1 BY DEF Cost
<1>4. IsLeast(t[i][j], t[i - 1][j] + 1, t[i][j - 1] + 1, t[i - 1][j - 1] + Cost(a, i, b, j)) BY DEF IsTable
<1> QED BY <1>1, <1>2, <1>3, <1>4

\* Names that begin alike have tables that begin alike.
LEMMA SameBeginning ==
  ASSUME NEW p \in Nat, NEW q \in Nat, NEW r \in Nat, NEW a, NEW b, NEW c, NEW t, NEW s,
         IsTable(t, a, p, b, q), IsTable(s, a, p, c, r),
         NEW k \in Nat, k <= q, k <= r, \A j \in 1 .. k : c[j] = b[j]
  PROVE  \A i \in 0 .. p : \A j \in 0 .. k : s[i][j] <= t[i][j]
<1> DEFINE G == {<<i, j>> : i \in 0 .. p, j \in 0 .. k} \cap {x \in (0 .. p) \X (0 .. k) : s[x[1]][x[2]] <= t[x[1]][x[2]]}
<1>1. \A i \in 0 .. p : \A j \in 0 .. k : <<i, j>> \in G <=> s[i][j] <= t[i][j] OBVIOUS
<1> HIDE DEF G
<1>2. ASSUME NEW i \in 0 .. p, NEW j \in 0 .. k,
             \A m \in 0 .. p : \A l \in 0 .. k : m + l < i + j => <<m, l>> \in G
      PROVE  s[i][j] <= t[i][j]
  <2>0. j \in 0 .. q /\ j \in 0 .. r OBVIOUS
  <2>1. CASE i = 0
    <3>1. s[0][j] = j /\ t[0][j] = j BY <2>0 DEF IsTable
    <3> QED BY <2>1, <3>1
  <2>2. CASE j = 0
    <3>1. s[i][0] = i /\ t[i][0] = i BY DEF IsTable
    <3> QED BY <2>2, <3>1
  <2>3. CASE i # 0 /\ j # 0
    <3>1. i \in 1 .. p /\ j \in 1 .. q /\ j \in 1 .. r /\ j \in 1 .. k BY <2>3, <2>0
    <3>2. i - 1 \in 0 .. p /\ j - 1 \in 0 .. k /\ i - 1 + j < i + j /\ i + (j - 1) < i + j /\ i - 1 + (j - 1) < i + j
      BY <3>1
    <3>3. s[i - 1][j] <= t[i - 1][j] /\ s[i][j - 1] <= t[i][j - 1] /\ s[i - 1][j - 1] <= t[i - 1][j - 1]
      BY <1>1, <1>2, <3>2
    <3>4. Cost(a, i, c, j) = Cost(a, i, b, j) BY <3>1 DEF Cost
    <3>5. /\ t[i][j] \in Nat /\ t[i - 1][j] \in Nat /\ t[i][j - 1] \in Nat /\ t[i - 1][j - 1] \in Nat
          /\ Cost(a, i, b, j) \in 0 .. 1
          /\ IsLeast(t[i][j], t[i - 1][j] + 1, t[i][j - 1] + 1, t[i - 1][j - 1] + Cost(a, i, b, j))
      BY <3>1, TableCell
    <3>6. /\ s[i][j] \in Nat /\ s[i - 1][j] \in Nat /\ s[i][j - 1] \in Nat /\ s[i - 1][j - 1] \in Nat
          /\ Cost(a, i, c, j) \in 0 .. 1
          /\ IsLeast(s[i][j], s[i - 1][j] + 1, s[i][j - 1] + 1, s[i - 1][j - 1] + Cost(a, i, c, j))
      BY <3>1, TableCell
    <3> QED BY <3>3, <3>4, <3>5, <3>6 DEF IsLeast
  <2> QED BY <2>1, <2>2, <2>3
<1>3. GridHolds(G, p, k) BY <1>1, <1>2 DEF GridHolds
<1> QED BY <1>1, <1>3, GridInduction

\* From a column on, the letters of c are those of b, d places further on; or the column
\* before is no dearer.
FollowsOn(s, t, p, b, q, c, k, d) ==
    \A j \in k + 1 .. q : c[j + d] = b[j] \/ \A i \in 0 .. p : s[i][j - 1 + d] <= t[i][j - 1]

LEMMA SameEnd ==
  ASSUME NEW p \in Nat, NEW q \in Nat, NEW a, NEW b, NEW c, NEW t, NEW s, NEW d \in -1 .. 1,
         q + d \in Nat,
         IsTable(t, a, p, b, q), IsTable(s, a, p, c, q + d),
         NEW k \in 0 .. q, k + d \in Nat,
         \A i \in 0 .. p : s[i][k + d] <= t[i][k] + 1,
         FollowsOn(s, t, p, b, q, c, k, d)
  PROVE  s[p][q + d] <= t[p][q] + 1
<1> DEFINE Good(i, j) == j < k \/ s[i][j + d] <= t[i][j] + 1
           G == {x \in (0 .. p) \X (0 .. q) : Good(x[1], x[2])}
<1>1. \A i \in 0 .. p : \A j \in 0 .. q : <<i, j>> \in G <=> Good(i, j) OBVIOUS
<1> HIDE DEF G
<1>2. ASSUME NEW i \in 0 .. p, NEW j \in 0 .. q,
             \A m \in 0 .. p : \A l \in 0 .. q : m + l < i + j => <<m, l>> \in G
      PROVE  Good(i, j)
  <2>1. CASE j < k BY <2>1
  <2>2. CASE j = k BY <2>2
  <2>3. CASE j > k
    <3>0. j \in k + 1 .. q /\ j \in 1 .. q /\ j + d \in 1 .. q + d /\ j - 1 \in 0 .. q /\ ~ (j < k) /\ ~ (j - 1 < k)
          /\ j - 1 + d = j + d - 1
      BY <2>3
    <3>1. CASE i = 0
      <4>1. j + d \in 0 .. q + d /\ j \in 0 .. q BY <3>0
      <4>2. s[0][j + d] = j + d /\ t[0][j] = j BY <4>1 DEF IsTable
      <4> QED BY <3>1, <4>2
    <3>2. CASE i # 0
      <4>1. i \in 1 .. p /\ i - 1 \in 0 .. p /\ i - 1 + j < i + j /\ i + (j - 1) < i + j /\ i - 1 + (j - 1) < i + j
        BY <3>0, <3>2
      <4>2. PICK e : e = j + d OBVIOUS
      <4>3. e \in 1 .. q + d /\ e - 1 = j - 1 + d BY <3>0, <4>2
      <4>4. s[i - 1][e] <= t[i - 1][j] + 1 /\ s[i][e - 1] <= t[i][j - 1] + 1 /\ s[i - 1][e - 1] <= t[i - 1][j - 1] + 1
        <5>1. Good(i - 1, j) /\ Good(i, j - 1) /\ Good(i - 1, j - 1) BY <1>1, <1>2, <3>0, <4>1
        <5> QED BY <5>1, <3>0, <4>2, <4>3
      <4>5. c[e] = b[j] \/ s[i - 1][e - 1] <= t[i - 1][j - 1] BY <3>0, <4>1, <4>2, <4>3 DEF FollowsOn
      <4>6. c[e] = b[j] => Cost(a, i, c, e) = Cost(a, i, b, j) BY DEF Cost
      <4>7. /\ t[i][j] \in Nat /\ t[i - 1][j] \in Nat /\ t[i][j - 1] \in Nat /\ t[i - 1][j - 1] \in Nat
            /\ Cost(a, i, b, j) \in 0 .. 1
            /\ IsLeast(t[i][j], t[i - 1][j] + 1, t[i][j - 1] + 1, t[i - 1][j - 1] + Cost(a, i, b, j))
        BY <3>0, <4>1, TableCell
      <4>8. /\ s[i][e] \in Nat /\ s[i - 1][e] \in Nat /\ s[i][e - 1] \in Nat /\ s[i - 1][e - 1] \in Nat
            /\ Cost(a, i, c, e) \in 0 .. 1
            /\ IsLeast(s[i][e], s[i - 1][e] + 1, s[i][e - 1] + 1, s[i - 1][e - 1] + Cost(a, i, c, e))
        BY <4>1, <4>3, TableCell
      <4>9. s[i][e] <= t[i][j] + 1 BY <4>4, <4>5, <4>6, <4>7, <4>8 DEF IsLeast
      <4> QED BY <4>2, <4>9
    <3> QED BY <3>1, <3>2
  <2> QED BY <2>1, <2>2, <2>3
<1>3. GridHolds(G, p, q) BY <1>1, <1>2 DEF GridHolds
<1>4. p \in 0 .. p /\ q \in 0 .. q /\ ~ (q < k) OBVIOUS
<1>5. Good(p, q) BY <1>1, <1>3, <1>4, GridInduction
<1> QED BY <1>4, <1>5

\* The words one edit makes of a word.
IsRemoved(w, v, q) == \E k \in 1 .. q : v = Removed(w, k) /\ v \in Words(q - 1)
IsReplaced(w, v, q) == \E k \in 1 .. q : \E l \in Letters : v = Replaced(w, k, l) /\ v \in Words(q)
IsInserted(w, v, q) == \E k \in 1 .. q + 1 : \E l \in Letters : v = Inserted(w, k, l) /\ v \in Words(q + 1)

LEMMA RemovedIs ==
  ASSUME NEW q \in Nat, NEW w \in Words(q), NEW k \in 1 .. q
  PROVE  /\ Removed(w, k) \in Words(q - 1)
         /\ \A j \in 1 .. q - 1 : Removed(w, k)[j] = IF j < k THEN w[j] ELSE w[j + 1]
<1>1. Removed(w, k) = [j \in 1 .. q - 1 |-> IF j < k THEN w[j] ELSE w[j + 1]] BY WordLength DEF Removed
<1>2. \A j \in 1 .. q - 1 : w[j] \in Letters /\ w[j + 1] \in Letters BY DEF Words
<1>3. Removed(w, k) \in [1 .. q - 1 -> Letters] BY <1>1, <1>2
<1> QED BY <1>1, <1>3 DEF Words

LEMMA ReplacedIs ==
  ASSUME NEW q \in Nat, NEW w \in Words(q), NEW k \in 1 .. q, NEW l \in Letters
  PROVE  /\ Replaced(w, k, l) \in Words(q)
         /\ \A j \in 1 .. q : Replaced(w, k, l)[j] = IF j = k THEN l ELSE w[j]
BY DEF Replaced, Words

LEMMA InsertedIs ==
  ASSUME NEW q \in Nat, NEW w \in Words(q), NEW k \in 1 .. q + 1, NEW l \in Letters
  PROVE  /\ Inserted(w, k, l) \in Words(q + 1)
         /\ \A j \in 1 .. q + 1 : Inserted(w, k, l)[j] = IF j < k THEN w[j] ELSE IF j = k THEN l ELSE w[j - 1]
<1>1. Inserted(w, k, l) = [j \in 1 .. q + 1 |-> IF j < k THEN w[j] ELSE IF j = k THEN l ELSE w[j - 1]]
  BY WordLength DEF Inserted
<1>2. \A j \in 1 .. q + 1 : (j < k => w[j] \in Letters) /\ (k < j => w[j - 1] \in Letters) BY DEF Words
<1>3. \A j \in 1 .. q + 1 : (IF j < k THEN w[j] ELSE IF j = k THEN l ELSE w[j - 1]) \in Letters BY <1>2
<1>4. Inserted(w, k, l) \in [1 .. q + 1 -> Letters] BY <1>1, <1>3
<1> QED BY <1>1, <1>4 DEF Words

LEMMA EditIs ==
  ASSUME NEW q \in Nat, NEW w \in Words(q), NEW v \in OneEdit(w)
  PROVE  IsRemoved(w, v, q) \/ IsReplaced(w, v, q) \/ IsInserted(w, v, q)
<1>1. Len(w) = q BY WordLength
<1>2. CASE \E k \in 1 .. q : v = Removed(w, k) BY <1>2, RemovedIs DEF IsRemoved
<1>3. CASE \E k \in 1 .. q : \E l \in Letters : v = Replaced(w, k, l) BY <1>3, ReplacedIs DEF IsReplaced
<1>4. CASE \E k \in 1 .. q + 1 : \E l \in Letters : v = Inserted(w, k, l) BY <1>4, InsertedIs DEF IsInserted
<1>5. \/ \E k \in 1 .. q : v = Removed(w, k)
      \/ \E k \in 1 .. q : \E l \in Letters : v = Replaced(w, k, l)
      \/ \E k \in 1 .. q + 1 : \E l \in Letters : v = Inserted(w, k, l)
  BY <1>1 DEF OneEdit
<1> QED BY <1>2, <1>3, <1>4, <1>5

\* A table is no dearer than one before the edit, and one.
LEMMA EditCostsOne ==
  ASSUME NEW p \in Nat, NEW q \in Nat, NEW r \in Nat, NEW a, NEW b \in Words(q), NEW c \in Words(r),
         c \in OneEdit(b), NEW t, NEW s, IsTable(t, a, p, b, q), IsTable(s, a, p, c, r)
  PROVE  s[p][r] <= t[p][q] + 1
<1>1. ASSUME NEW z \in Nat, c \in Words(z) PROVE z = r
  <2>1. Len(c) = z /\ Len(c) = r BY <1>1, WordLength
  <2> QED BY <2>1
<1>2. CASE IsRemoved(b, c, q)
  <2>1. PICK k \in 1 .. q : c = Removed(b, k) /\ c \in Words(q - 1) BY <1>2 DEF IsRemoved
  <2>2. q - 1 \in Nat OBVIOUS
  <2>3. r = q - 1 BY <2>1, <2>2, <1>1
  <2>4. \A j \in 1 .. q - 1 : c[j] = IF j < k THEN b[j] ELSE b[j + 1] BY <2>1, RemovedIs
  <2>5. k - 1 \in Nat /\ k - 1 <= q /\ k - 1 <= r /\ \A j \in 1 .. k - 1 : c[j] = b[j] BY <2>3, <2>4
  <2>6. \A i \in 0 .. p : \A j \in 0 .. k - 1 : s[i][j] <= t[i][j]
    <3>1. PICK h : h = k - 1 OBVIOUS
    <3>2. h \in Nat /\ h <= q /\ h <= r BY <2>5, <3>1
    <3>3. \A j \in 1 .. h : c[j] = b[j] BY <2>5, <3>1
    <3>4. \A i \in 0 .. p : \A j \in 0 .. h : s[i][j] <= t[i][j] BY <3>2, <3>3, SameBeginning
    <3> QED BY <3>1, <3>4
  <2>7. \A i \in 0 .. p : s[i][k - 1] <= t[i][k] + 1
    <3> SUFFICES ASSUME NEW i \in 0 .. p PROVE s[i][k - 1] <= t[i][k] + 1 OBVIOUS
    <3>1. k - 1 \in 0 .. k - 1 /\ k - 1 \in 0 .. q /\ k - 1 \in 0 .. r /\ k \in 0 .. q BY <2>3
    <3>2. s[i][k - 1] <= t[i][k - 1] BY <3>1, <2>6
    <3>3. t[i][k - 1] <= t[i][k] + 1 BY ColumnsAreClose
    <3>4. s[i][k - 1] \in Nat /\ t[i][k - 1] \in Nat /\ t[i][k] \in Nat BY <3>1 DEF IsTable
    <3> QED BY <3>2, <3>3, <3>4
  <2>8. PICK d : d = -1 OBVIOUS
  <2>9. d \in -1 .. 1 /\ q + d = r /\ k + d = k - 1 /\ k \in 0 .. q BY <2>3, <2>8
  <2>10. FollowsOn(s, t, p, b, q, c, k, d)
    <3>1. \A j \in k + 1 .. q : j + d \in 1 .. q - 1 /\ ~ (j + d < k) /\ j + d + 1 = j BY <2>8
    <3>2. \A j \in k + 1 .. q : c[j + d] = b[j] BY <3>1, <2>4
    <3> QED BY <3>2 DEF FollowsOn
  <2>11. s[p][q + d] <= t[p][q] + 1 BY <2>2, <2>5, <2>7, <2>9, <2>10, SameEnd
  <2> QED BY <2>9, <2>11
<1>3. CASE IsReplaced(b, c, q)
  <2>1. PICK k \in 1 .. q : \E l \in Letters : c = Replaced(b, k, l) /\ c \in Words(q) BY <1>3 DEF IsReplaced
  <2>2. PICK l \in Letters : c = Replaced(b, k, l) BY <2>1
  <2>3. r = q BY <2>1, <1>1
  <2>4. \A j \in 1 .. q : c[j] = IF j = k THEN l ELSE b[j] BY <2>2, ReplacedIs
  <2>5. k - 1 \in Nat /\ k - 1 <= q /\ k - 1 <= r /\ \A j \in 1 .. k - 1 : c[j] = b[j] BY <2>3, <2>4
  <2>6. \A i \in 0 .. p : \A j \in 0 .. k - 1 : s[i][j] <= t[i][j] BY <2>5, SameBeginning
  <2>7. PICK h : h = k - 1 OBVIOUS
  <2>8. h \in 0 .. q /\ h + 0 \in Nat /\ h + 0 = h /\ q + 0 = q /\ 0 \in -1 .. 1 BY <2>7
  <2>9. \A i \in 0 .. p : s[i][h] <= t[i][h] BY <2>6, <2>7
  <2>10. \A i \in 0 .. p : s[i][h + 0] <= t[i][h] + 1
    <3> SUFFICES ASSUME NEW i \in 0 .. p PROVE s[i][h + 0] <= t[i][h] + 1 OBVIOUS
    <3>1. s[i][h] \in Nat /\ t[i][h] \in Nat BY <2>8, <2>3 DEF IsTable
    <3> QED BY <3>1, <2>8, <2>9
  <2>11. FollowsOn(s, t, p, b, q, c, h, 0)
    <3>1. SUFFICES ASSUME NEW j \in h + 1 .. q
                   PROVE  c[j + 0] = b[j] \/ \A i \in 0 .. p : s[i][j - 1 + 0] <= t[i][j - 1]
      BY DEF FollowsOn
    <3>2. CASE j = k
      <4>1. j - 1 + 0 = h /\ j - 1 = h BY <3>2, <2>7
      <4> QED BY <4>1, <2>9
    <3>3. CASE j # k
      <4>1. j \in 1 .. q /\ j + 0 = j BY <2>7
      <4> QED BY <3>3, <4>1, <2>4
    <3> QED BY <3>2, <3>3
  <2>12. IsTable(s, a, p, c, q + 0) BY <2>3, <2>8
  <2>13. s[p][q + 0] <= t[p][q] + 1 BY <2>8, <2>10, <2>11, <2>12, SameEnd
  <2> QED BY <2>3, <2>8, <2>13
<1>4. CASE IsInserted(b, c, q)
  <2>1. PICK k \in 1 .. q + 1 : \E l \in Letters : c = Inserted(b, k, l) /\ c \in Words(q + 1) BY <1>4 DEF IsInserted
  <2>2. PICK l \in Letters : c = Inserted(b, k, l) BY <2>1
  <2>3. r = q + 1 BY <2>1, <1>1
  <2>4. \A j \in 1 .. q + 1 : c[j] = IF j < k THEN b[j] ELSE IF j = k THEN l ELSE b[j - 1] BY <2>2, InsertedIs
  <2>5. k - 1 \in Nat /\ k - 1 <= q /\ k - 1 <= r /\ \A j \in 1 .. k - 1 : c[j] = b[j] BY <2>3, <2>4
  <2>6. \A i \in 0 .. p : \A j \in 0 .. k - 1 : s[i][j] <= t[i][j] BY <2>5, SameBeginning
  <2>7. PICK h : h = k - 1 OBVIOUS
  <2>8. h \in 0 .. q /\ h + 1 \in Nat /\ h + 1 = k /\ 1 \in -1 .. 1 /\ k \in 1 .. r /\ k - 1 = h /\ h \in 0 .. r /\ k \in 0 .. r
    BY <2>3, <2>7
  <2>9. \A i \in 0 .. p : s[i][h] <= t[i][h] BY <2>6, <2>7
  <2>10. \A i \in 0 .. p : s[i][h + 1] <= t[i][h] + 1
    <3> SUFFICES ASSUME NEW i \in 0 .. p PROVE s[i][h + 1] <= t[i][h] + 1 OBVIOUS
    <3>1. s[i][h] \in Nat /\ t[i][h] \in Nat /\ s[i][k] \in Nat BY <2>8 DEF IsTable
    <3>2. s[i][k] <= s[i][k - 1] + 1 BY <2>8, ColumnsAreClose
    <3> QED BY <3>1, <3>2, <2>8, <2>9
  <2>11. FollowsOn(s, t, p, b, q, c, h, 1)
    <3>1. \A j \in h + 1 .. q : j + 1 \in 1 .. q + 1 /\ ~ (j + 1 < k) /\ j + 1 # k /\ j + 1 - 1 = j BY <2>7
    <3>2. \A j \in h + 1 .. q : c[j + 1] = b[j] BY <3>1, <2>4
    <3> QED BY <3>2 DEF FollowsOn
  <2>12. PICK d : d = 1 OBVIOUS
  <2>13. d \in -1 .. 1 /\ q + d = r /\ q + d \in Nat /\ h + d \in Nat /\ h \in 0 .. q BY <2>3, <2>8, <2>12
  <2>14. IsTable(s, a, p, c, q + d) BY <2>13
  <2>15. \A i \in 0 .. p : s[i][h + d] <= t[i][h] + 1 BY <2>10, <2>12
  <2>16. FollowsOn(s, t, p, b, q, c, h, d) BY <2>11, <2>12
  <2>17. s[p][q + d] <= t[p][q] + 1 BY <2>13, <2>14, <2>15, <2>16, SameEnd
  <2> QED BY <2>13, <2>17
<1>5. IsRemoved(b, c, q) \/ IsReplaced(b, c, q) \/ IsInserted(b, c, q) BY EditIs
<1> QED BY <1>2, <1>3, <1>4, <1>5

\* What so many edits reach, edit by edit.
LEMMA WithinIs ==
  ASSUME NEW w \in PackageNames
  PROVE  /\ Within(w)[0] = {w}
         /\ \A n \in 1 .. MaxName : Within(w)[n] = OneFurther(Within(w)[n - 1])
         /\ \A n \in 0 .. MaxName : Within(w)[n] \subseteq PackageNames
<1> DEFINE V == SUBSET PackageNames
           R(g, n) == IF n = 0 THEN {w} ELSE OneFurther(g[n - 1])
           within == CHOOSE g : g = [n \in 0 .. MaxName |-> R(g, n)]
<1>0. Within(w) = within BY DEF Within
<1>1. {w} \in V /\ MaxName \in Nat BY SecurityAssumption
<1>2. ASSUME NEW near \in V PROVE OneFurther(near) \in V
  <2>1. \A v \in OneFurther(near) : v \in near \/ v \in PackageNames BY DEF OneFurther
  <2>2. near \subseteq PackageNames BY DEF V
  <2>3. OneFurther(near) \subseteq PackageNames BY <2>1, <2>2
  <2> QED BY <2>3 DEF V
<1> HIDE DEF V
<1>3. PICK F : F = [iw \in (1 .. MaxName) \X V |-> OneFurther(iw[2])] OBVIOUS
<1>4. \A n \in 1 .. MaxName : \A near \in V : F[<<n, near>>] = OneFurther(near) BY <1>3
<1>5. F \in [(1 .. MaxName) \X V -> V]
  <2>1. F = [iw \in (1 .. MaxName) \X V |-> F[iw]] BY <1>3
  <2>2. ASSUME NEW iw \in (1 .. MaxName) \X V PROVE F[iw] \in V
    <3>1. PICK n \in 1 .. MaxName, near \in V : iw = <<n, near>> OBVIOUS
    <3> QED BY <3>1, <1>2, <1>4
  <2> QED BY <2>1, <2>2
<1>6. PICK f \in [0 .. MaxName -> V] : FollowsSteps(f, MaxName, {w}, F) BY <1>1, <1>5, StepsExist
<1>7. \A n \in 0 .. MaxName : f[n] = R(f, n)
  <2> SUFFICES ASSUME NEW n \in 0 .. MaxName PROVE f[n] = R(f, n) OBVIOUS
  <2>1. f[n] = IF n = 0 THEN {w} ELSE F[<<n, f[n - 1]>>] BY <1>6 DEF FollowsSteps
  <2>2. CASE n = 0 BY <2>1, <2>2
  <2>3. CASE n # 0
    <3>1. n \in 1 .. MaxName /\ n - 1 \in 0 .. MaxName BY <2>3, <1>1
    <3>2. f[n - 1] \in V BY <3>1
    <3>3. F[<<n, f[n - 1]>>] = OneFurther(f[n - 1]) BY <3>1, <3>2, <1>4
    <3> QED BY <2>1, <2>3, <3>3
  <2> QED BY <2>2, <2>3
<1>8. f = [n \in 0 .. MaxName |-> R(f, n)]
  <2>1. f = [n \in 0 .. MaxName |-> f[n]] OBVIOUS
  <2> HIDE DEF R
  <2> QED BY <2>1, <1>7
<1>9. within = [n \in 0 .. MaxName |-> R(within, n)]
  <2> HIDE DEF R
  <2> QED BY <1>8
<1>10. PICK t : t = within OBVIOUS
<1>11. t = [n \in 0 .. MaxName |-> R(t, n)]
  <2> HIDE DEF R, within
  <2> QED BY <1>9, <1>10
<1> HIDE DEF within
<1>12. \A n \in 0 .. MaxName : t[n] = R(t, n)
  <2> HIDE DEF R
  <2> QED BY <1>11
<1>13. t[0] = {w} /\ \A n \in 1 .. MaxName : t[n] = OneFurther(t[n - 1])
  <2>1. 0 \in 0 .. MaxName /\ \A n \in 1 .. MaxName : n \in 0 .. MaxName /\ n # 0 BY <1>1
  <2> QED BY <2>1, <1>12
<1>14. \A n \in 0 .. MaxName : t[n] \in V
  <2> DEFINE Bad == {n \in 0 .. MaxName : t[n] \notin V}
  <2> SUFFICES ASSUME Bad # {} PROVE FALSE OBVIOUS
  <2>0. Bad \subseteq Nat OBVIOUS
  <2>1. PICK n \in Bad : \A k \in Bad : n <= k BY <2>0, LeastOf
  <2>2. n \in 0 .. MaxName /\ t[n] \notin V BY <2>1
  <2>3. n # 0 BY <2>2, <1>13, <1>1
  <2>4. n \in 1 .. MaxName /\ n - 1 \in 0 .. MaxName /\ ~ (n <= n - 1) BY <2>2, <2>3, <1>1
  <2>5. t[n - 1] \in V BY <2>4, <2>1
  <2> QED BY <2>2, <2>4, <2>5, <1>2, <1>13
<1> QED BY <1>0, <1>10, <1>13, <1>14 DEF V

LEMMA NamesAreWords ==
  ASSUME NEW w \in PackageNames
  PROVE  \E n \in 0 .. MaxName : n \in Nat /\ w \in Words(n)
BY SecurityAssumption DEF PackageNames, Words

\* So many edits cost at most as much.
LEMMA WithinIsNear ==
  ASSUME NEW p \in 0 .. MaxName, NEW a \in Words(p), NEW n \in 0 .. MaxName,
         NEW q \in 0 .. MaxName, NEW b \in Words(q), b \in Within(a)[n], NEW t, IsTable(t, a, p, b, q)
  PROVE  t[p][q] <= n
<1>0. MaxName \in Nat /\ p \in Nat /\ q \in Nat BY SecurityAssumption
<1>1. a \in PackageNames BY <1>0 DEF Words, PackageNames
<1> DEFINE Near(c, r, m) == \A s : IsTable(s, a, p, c, r) => s[p][r] <= m
           Bad == {m \in 0 .. MaxName : ~ \A r \in 0 .. MaxName : \A c \in Words(r) : c \in Within(a)[m] => Near(c, r, m)}
<1>2. Bad = {}
  <2> SUFFICES ASSUME Bad # {} PROVE FALSE OBVIOUS
  <2>0. Bad \subseteq Nat OBVIOUS
  <2>1. PICK m \in Bad : \A k \in Bad : m <= k BY <2>0, LeastOf
  <2>2. m \in 0 .. MaxName /\ m \in Nat BY <2>1, <1>0
  <2>3. PICK r \in 0 .. MaxName : \E c \in Words(r) : c \in Within(a)[m] /\ ~ Near(c, r, m) BY <2>1
  <2>4. PICK c \in Words(r) : c \in Within(a)[m] /\ ~ Near(c, r, m) BY <2>3
  <2>5. PICK s : IsTable(s, a, p, c, r) /\ ~ (s[p][r] <= m) BY <2>4
  <2>6. r \in Nat BY <1>0
  <2>7. s[p][r] \in Nat
    <3>1. p \in 0 .. p /\ r \in 0 .. r BY <1>0, <2>6
    <3> QED BY <2>5, <3>1 DEF IsTable
  <2>8. CASE m = 0
    <3>1. c = a BY <2>4, <2>8, <1>1, WithinIs
    <3>2. r = p
      <4>1. Len(a) = p /\ Len(c) = r BY <1>0, <2>6, WordLength
      <4> QED BY <4>1, <3>1
    <3>3. \A i \in 0 .. p : s[i][i] <= 0
      <4> DEFINE Bad2 == {i \in 0 .. p : ~ (s[i][i] <= 0)}
      <4> SUFFICES ASSUME Bad2 # {} PROVE FALSE OBVIOUS
      <4>0. Bad2 \subseteq Nat OBVIOUS
      <4>1. PICK i \in Bad2 : \A k \in Bad2 : i <= k BY <4>0, LeastOf
      <4>2. i \in 0 .. p /\ ~ (s[i][i] <= 0) BY <4>1
      <4>3. s[0][0] = 0
        <5>1. 0 \in 0 .. p BY <1>0
        <5> QED BY <5>1, <2>5, <3>2 DEF IsTable
      <4>4. i # 0 BY <4>2, <4>3
      <4>5. i \in 1 .. p /\ i \in 1 .. r /\ i - 1 \in 0 .. p /\ ~ (i <= i - 1) BY <4>2, <4>4, <3>2
      <4>6. s[i - 1][i - 1] <= 0 BY <4>5, <4>1
      <4>7. Cost(a, i, c, i) = 0 BY <3>1 DEF Cost
      <4>8. /\ s[i][i] \in Nat /\ s[i - 1][i - 1] \in Nat
            /\ IsLeast(s[i][i], s[i - 1][i] + 1, s[i][i - 1] + 1, s[i - 1][i - 1] + Cost(a, i, c, i))
        BY <1>0, <2>5, <2>6, <4>5, TableCell
      <4> QED BY <4>2, <4>6, <4>7, <4>8 DEF IsLeast
    <3>4. p \in 0 .. p BY <1>0
    <3> QED BY <3>2, <3>3, <3>4, <2>5, <2>8
  <2>9. CASE m # 0
    <3>1. m \in 1 .. MaxName /\ m - 1 \in 0 .. MaxName /\ ~ (m <= m - 1) BY <2>2, <2>9, <1>0
    <3>2. m - 1 \notin Bad BY <3>1, <2>1
    <3>3. \A k \in 0 .. MaxName : \A v \in Words(k) : v \in Within(a)[m - 1] => Near(v, k, m - 1) BY <3>1, <3>2
    <3>4. Within(a)[m] = OneFurther(Within(a)[m - 1]) /\ Within(a)[m - 1] \subseteq PackageNames
      BY <1>1, <3>1, WithinIs
    <3>5. CASE c \in Within(a)[m - 1]
      <4>1. s[p][r] <= m - 1 BY <3>3, <3>5, <2>5
      <4> QED BY <4>1, <2>5, <2>7, <2>2
    <3>6. CASE c \notin Within(a)[m - 1]
      <4>1. PICK v \in Within(a)[m - 1] : c \in OneEdit(v) BY <2>4, <3>4, <3>6 DEF OneFurther
      <4>2. PICK k \in 0 .. MaxName : k \in Nat /\ v \in Words(k) BY <4>1, <3>4, NamesAreWords
      <4>3. PICK x : IsTable(x, a, p, v, k) BY <1>0, <4>2, DistanceIsOfATable
      <4>4. x[p][k] <= m - 1 BY <3>3, <4>1, <4>2, <4>3
      <4>5. x[p][k] \in Nat
        <5>1. p \in 0 .. p /\ k \in 0 .. k BY <1>0, <4>2
        <5> QED BY <4>3, <5>1 DEF IsTable
      <4>6. s[p][r] <= x[p][k] + 1 BY <1>0, <2>5, <2>6, <4>1, <4>2, <4>3, EditCostsOne
      <4> QED BY <4>4, <4>5, <4>6, <2>5, <2>7, <2>2
    <3> QED BY <3>5, <3>6
  <2> QED BY <2>8, <2>9
<1>3. \A c \in Words(q) : c \in Within(a)[n] => Near(c, q, n) BY <1>2
<1> QED BY <1>3

UpTo(k) == UNION {Words(n) : n \in 0 .. k}
Longer(w, l) == Inserted(w, Len(w) + 1, l)
Beginning(w, i) == [j \in 1 .. i |-> w[j]]

\* m edits, or fewer, make z of x through words no longer than k.
IsPath(f, m, k, x, z) ==
    /\ f \in [0 .. m -> UpTo(k)] /\ f[0] = x /\ f[m] = z
    /\ \A s \in 1 .. m : f[s] = f[s - 1] \/ f[s] \in OneEdit(f[s - 1])
Path(m, k, x, z) == \E f : IsPath(f, m, k, x, z)

LEMMA EditBack ==
  ASSUME NEW q \in Nat, NEW w \in Words(q)
  PROVE  /\ \A k \in 1 .. q : Removed(w, k) \in OneEdit(w)
         /\ \A k \in 1 .. q : \A l \in Letters : Replaced(w, k, l) \in OneEdit(w)
         /\ \A k \in 1 .. q + 1 : \A l \in Letters : Inserted(w, k, l) \in OneEdit(w)
<1>1. Len(w) = q BY WordLength
<1> QED BY <1>1 DEF OneEdit

LEMMA LongerIs ==
  ASSUME NEW q \in Nat, NEW w \in Words(q), NEW l \in Letters
  PROVE  /\ Longer(w, l) \in Words(q + 1)
         /\ \A j \in 1 .. q : Longer(w, l)[j] = w[j]
         /\ Longer(w, l)[q + 1] = l
<1>1. Longer(w, l) = Inserted(w, q + 1, l) BY WordLength DEF Longer
<1>2. q + 1 \in 1 .. q + 1 /\ \A j \in 1 .. q : j \in 1 .. q + 1 /\ j < q + 1 OBVIOUS
<1>3. /\ Inserted(w, q + 1, l) \in Words(q + 1)
      /\ \A j \in 1 .. q + 1 : Inserted(w, q + 1, l)[j] =
            IF j < q + 1 THEN w[j] ELSE IF j = q + 1 THEN l ELSE w[j - 1]
  BY <1>2, InsertedIs
<1> QED BY <1>1, <1>2, <1>3

LEMMA SameWord ==
  ASSUME NEW q \in Nat, NEW v \in Words(q), NEW w \in Words(q), \A j \in 1 .. q : v[j] = w[j]
  PROVE  v = w
BY DEF Words

\* An edit of a word is an edit of the word with a letter behind it.
LEMMA EditOfLonger ==
  ASSUME NEW q \in Nat, NEW w \in Words(q), NEW v \in OneEdit(w), NEW l \in Letters
  PROVE  Longer(v, l) \in OneEdit(Longer(w, l))
<1>1. PICK x : x = Longer(w, l) OBVIOUS
<1>2. x \in Words(q + 1) /\ (\A j \in 1 .. q : x[j] = w[j]) /\ x[q + 1] = l /\ q + 1 \in Nat BY <1>1, LongerIs
<1>3. CASE IsRemoved(w, v, q)
  <2>1. PICK k \in 1 .. q : v = Removed(w, k) /\ v \in Words(q - 1) BY <1>3 DEF IsRemoved
  <2>2. q - 1 \in Nat /\ q - 1 + 1 = q /\ q + 1 - 1 = q /\ k \in 1 .. q + 1 OBVIOUS
  <2>3. PICK y : y = Longer(v, l) OBVIOUS
  <2>4. y \in Words(q) /\ (\A j \in 1 .. q - 1 : y[j] = v[j]) /\ y[q] = l
    <3>1. y \in Words(q - 1 + 1) /\ (\A j \in 1 .. q - 1 : y[j] = v[j]) /\ y[q - 1 + 1] = l
      BY <2>1, <2>2, <2>3, LongerIs
    <3> QED BY <3>1, <2>2
  <2>5. PICK z : z = Removed(x, k) OBVIOUS
  <2>6. z \in Words(q) /\ \A j \in 1 .. q : z[j] = IF j < k THEN x[j] ELSE x[j + 1]
    <3>1. z \in Words(q + 1 - 1) /\ \A j \in 1 .. q + 1 - 1 : z[j] = IF j < k THEN x[j] ELSE x[j + 1]
      BY <1>2, <2>2, <2>5, RemovedIs
    <3> QED BY <3>1, <2>2
  <2>7. \A j \in 1 .. q - 1 : v[j] = IF j < k THEN w[j] ELSE w[j + 1] BY <2>1, RemovedIs
  <2>8. ASSUME NEW j \in 1 .. q PROVE y[j] = z[j]
    <3>1. CASE j = q
      <4>1. ~ (j < k) /\ j + 1 = q + 1 BY <3>1
      <4> QED BY <3>1, <4>1, <2>4, <2>6, <1>2
    <3>2. CASE j # q
      <4>1. j \in 1 .. q - 1 /\ j + 1 \in 1 .. q BY <3>2
      <4> QED BY <4>1, <2>4, <2>6, <2>7, <1>2
    <3> QED BY <3>1, <3>2
  <2>9. y = z BY <2>4, <2>6, <2>8, SameWord
  <2>10. z \in OneEdit(x) BY <1>2, <2>2, <2>5, EditBack
  <2> QED BY <1>1, <2>3, <2>9, <2>10
<1>4. CASE IsReplaced(w, v, q)
  <2>1. PICK k \in 1 .. q : \E m \in Letters : v = Replaced(w, k, m) /\ v \in Words(q) BY <1>4 DEF IsReplaced
  <2>2. PICK m \in Letters : v = Replaced(w, k, m) /\ v \in Words(q) BY <2>1
  <2>3. k \in 1 .. q + 1 OBVIOUS
  <2>4. PICK y : y = Longer(v, l) OBVIOUS
  <2>5. y \in Words(q + 1) /\ (\A j \in 1 .. q : y[j] = v[j]) /\ y[q + 1] = l BY <2>2, <2>4, LongerIs
  <2>6. PICK z : z = Replaced(x, k, m) OBVIOUS
  <2>7. z \in Words(q + 1) /\ \A j \in 1 .. q + 1 : z[j] = IF j = k THEN m ELSE x[j]
    BY <1>2, <2>3, <2>6, ReplacedIs
  <2>8. \A j \in 1 .. q : v[j] = IF j = k THEN m ELSE w[j] BY <2>2, ReplacedIs
  <2>9. ASSUME NEW j \in 1 .. q + 1 PROVE y[j] = z[j]
    <3>1. CASE j = q + 1
      <4>1. j # k BY <3>1
      <4> QED BY <3>1, <4>1, <2>5, <2>7, <1>2
    <3>2. CASE j # q + 1
      <4>1. j \in 1 .. q BY <3>2
      <4> QED BY <4>1, <2>5, <2>7, <2>8, <1>2
    <3> QED BY <3>1, <3>2
  <2>10. y = z BY <1>2, <2>5, <2>7, <2>9, SameWord
  <2>11. z \in OneEdit(x) BY <1>2, <2>3, <2>6, EditBack
  <2> QED BY <1>1, <2>4, <2>10, <2>11
<1>5. CASE IsInserted(w, v, q)
  <2>1. PICK k \in 1 .. q + 1 : \E m \in Letters : v = Inserted(w, k, m) /\ v \in Words(q + 1) BY <1>5 DEF IsInserted
  <2>2. PICK m \in Letters : v = Inserted(w, k, m) /\ v \in Words(q + 1) BY <2>1
  <2>3. k \in 1 .. q + 1 + 1 /\ q + 1 + 1 \in Nat OBVIOUS
  <2>4. PICK y : y = Longer(v, l) OBVIOUS
  <2>5. y \in Words(q + 1 + 1) /\ (\A j \in 1 .. q + 1 : y[j] = v[j]) /\ y[q + 1 + 1] = l BY <1>2, <2>2, <2>4, LongerIs
  <2>6. PICK z : z = Inserted(x, k, m) OBVIOUS
  <2>7. z \in Words(q + 1 + 1)
        /\ \A j \in 1 .. q + 1 + 1 : z[j] = IF j < k THEN x[j] ELSE IF j = k THEN m ELSE x[j - 1]
    BY <1>2, <2>3, <2>6, InsertedIs
  <2>8. \A j \in 1 .. q + 1 : v[j] = IF j < k THEN w[j] ELSE IF j = k THEN m ELSE w[j - 1] BY <2>2, InsertedIs
  <2>9. ASSUME NEW j \in 1 .. q + 1 + 1 PROVE y[j] = z[j]
    <3>1. CASE j = q + 1 + 1
      <4>1. ~ (j < k) /\ j # k /\ j - 1 = q + 1 BY <3>1
      <4> QED BY <3>1, <4>1, <2>5, <2>7, <1>2
    <3>2. CASE j # q + 1 + 1
      <4>1. j \in 1 .. q + 1 BY <3>2
      <4>2. y[j] = v[j] BY <4>1, <2>5
      <4>3. CASE j < k
        <5>1. j \in 1 .. q BY <4>3
        <5> QED BY <4>1, <4>2, <4>3, <5>1, <2>7, <2>8, <1>2
      <4>4. CASE j = k BY <4>1, <4>2, <4>4, <2>7, <2>8
      <4>5. CASE j > k
        <5>1. j - 1 \in 1 .. q /\ ~ (j < k) /\ j # k BY <4>1, <4>5
        <5> QED BY <4>1, <4>2, <5>1, <2>7, <2>8, <1>2
      <4> QED BY <4>3, <4>4, <4>5
    <3> QED BY <3>1, <3>2
  <2>10. y = z BY <2>3, <2>5, <2>7, <2>9, SameWord
  <2>11. z \in OneEdit(x) BY <1>2, <2>3, <2>6, EditBack
  <2> QED BY <1>1, <2>4, <2>10, <2>11
<1> QED BY <1>3, <1>4, <1>5, EditIs

LEMMA UpToGrows ==
  ASSUME NEW k \in Nat, NEW h \in Nat, k <= h
  PROVE  UpTo(k) \subseteq UpTo(h)
<1>1. \A n \in 0 .. k : n \in 0 .. h OBVIOUS
<1> QED BY <1>1 DEF UpTo

LEMMA PathWider ==
  ASSUME NEW m, NEW k \in Nat, NEW h \in Nat, k <= h, NEW x, NEW z, Path(m, k, x, z)
  PROVE  Path(m, h, x, z)
<1>1. PICK f : IsPath(f, m, k, x, z) BY DEF Path
<1>2. UpTo(k) \subseteq UpTo(h) BY UpToGrows
<1>3. f \in [0 .. m -> UpTo(h)] BY <1>1, <1>2 DEF IsPath
<1>4. IsPath(f, m, h, x, z) BY <1>1, <1>3 DEF IsPath
<1> QED BY <1>4 DEF Path

LEMMA PathFirst ==
  ASSUME NEW m \in Nat, NEW k, NEW x \in UpTo(k), NEW y, NEW z, y \in OneEdit(x), Path(m, k, y, z)
  PROVE  Path(m + 1, k, x, z)
<1>1. PICK f : IsPath(f, m, k, y, z) BY DEF Path
<1>2. PICK g : g = [s \in 0 .. m + 1 |-> IF s = 0 THEN x ELSE f[s - 1]] OBVIOUS
<1>3. \A s \in 1 .. m + 1 : s - 1 \in 0 .. m /\ s \in 0 .. m + 1 /\ s # 0 OBVIOUS
<1>4. g[0] = x /\ \A s \in 1 .. m + 1 : g[s] = f[s - 1]
  <2>1. 0 \in 0 .. m + 1 OBVIOUS
  <2> QED BY <1>2, <1>3, <2>1
<1>5. \A s \in 0 .. m + 1 : (IF s = 0 THEN x ELSE f[s - 1]) \in UpTo(k)
  <2> SUFFICES ASSUME NEW s \in 0 .. m + 1 PROVE (IF s = 0 THEN x ELSE f[s - 1]) \in UpTo(k) OBVIOUS
  <2>1. s # 0 => s - 1 \in 0 .. m OBVIOUS
  <2> QED BY <2>1, <1>1 DEF IsPath
<1>6. g \in [0 .. m + 1 -> UpTo(k)] BY <1>2, <1>5
<1>7. g[m + 1] = z
  <2>1. m + 1 \in 1 .. m + 1 /\ m + 1 - 1 = m OBVIOUS
  <2> QED BY <2>1, <1>1, <1>4 DEF IsPath
<1>8. ASSUME NEW s \in 1 .. m + 1 PROVE g[s] = g[s - 1] \/ g[s] \in OneEdit(g[s - 1])
  <2>1. CASE s = 1
    <3>1. g[s] = f[0] /\ g[s - 1] = x BY <2>1, <1>4
    <3> QED BY <3>1, <1>1 DEF IsPath
  <2>2. CASE s # 1
    <3>1. s - 1 \in 1 .. m + 1 /\ s - 1 \in 1 .. m BY <2>2
    <3>2. g[s] = f[s - 1] /\ g[s - 1] = f[s - 1 - 1] BY <3>1, <1>4
    <3> QED BY <3>1, <3>2, <1>1 DEF IsPath
  <2> QED BY <2>1, <2>2
<1>9. IsPath(g, m + 1, k, x, z) BY <1>4, <1>6, <1>7, <1>8 DEF IsPath
<1> QED BY <1>9 DEF Path

LEMMA PathLast ==
  ASSUME NEW m \in Nat, NEW k, NEW z \in UpTo(k), NEW x, NEW y, z \in OneEdit(y), Path(m, k, x, y)
  PROVE  Path(m + 1, k, x, z)
<1>1. PICK f : IsPath(f, m, k, x, y) BY DEF Path
<1>2. PICK g : g = [s \in 0 .. m + 1 |-> IF s = m + 1 THEN z ELSE f[s]] OBVIOUS
<1>3. g[m + 1] = z /\ \A s \in 0 .. m : g[s] = f[s]
  <2>1. m + 1 \in 0 .. m + 1 /\ \A s \in 0 .. m : s \in 0 .. m + 1 /\ s # m + 1 OBVIOUS
  <2> QED BY <1>2, <2>1
<1>4. \A s \in 0 .. m + 1 : (IF s = m + 1 THEN z ELSE f[s]) \in UpTo(k)
  <2> SUFFICES ASSUME NEW s \in 0 .. m + 1 PROVE (IF s = m + 1 THEN z ELSE f[s]) \in UpTo(k) OBVIOUS
  <2>1. s # m + 1 => s \in 0 .. m OBVIOUS
  <2> QED BY <2>1, <1>1 DEF IsPath
<1>5. g \in [0 .. m + 1 -> UpTo(k)] BY <1>2, <1>4
<1>6. g[0] = x
  <2>1. 0 \in 0 .. m OBVIOUS
  <2> QED BY <2>1, <1>1, <1>3 DEF IsPath
<1>7. ASSUME NEW s \in 1 .. m + 1 PROVE g[s] = g[s - 1] \/ g[s] \in OneEdit(g[s - 1])
  <2>1. CASE s = m + 1
    <3>1. s - 1 \in 0 .. m /\ s - 1 = m BY <2>1
    <3>2. g[s] = z /\ g[s - 1] = f[m] BY <2>1, <3>1, <1>3
    <3> QED BY <3>2, <1>1 DEF IsPath
  <2>2. CASE s # m + 1
    <3>1. s \in 1 .. m /\ s \in 0 .. m /\ s - 1 \in 0 .. m BY <2>2
    <3>2. g[s] = f[s] /\ g[s - 1] = f[s - 1] BY <3>1, <1>3
    <3> QED BY <3>1, <3>2, <1>1 DEF IsPath
  <2> QED BY <2>1, <2>2
<1>8. IsPath(g, m + 1, k, x, z) BY <1>3, <1>5, <1>6, <1>7 DEF IsPath
<1> QED BY <1>8 DEF Path

LEMMA PathLonger ==
  ASSUME NEW m \in Nat, NEW k \in Nat, NEW x, NEW z, NEW l \in Letters, Path(m, k, x, z)
  PROVE  Path(m, k + 1, Longer(x, l), Longer(z, l))
<1>1. PICK f : IsPath(f, m, k, x, z) BY DEF Path
<1>2. PICK g : g = [s \in 0 .. m |-> Longer(f[s], l)] OBVIOUS
<1>3. \A s \in 0 .. m : \E n \in 0 .. k : f[s] \in Words(n)
  <2>1. \A s \in 0 .. m : f[s] \in UpTo(k) BY <1>1 DEF IsPath
  <2> QED BY <2>1 DEF UpTo
<1>4. ASSUME NEW s \in 0 .. m PROVE Longer(f[s], l) \in UpTo(k + 1)
  <2>1. PICK n \in 0 .. k : f[s] \in Words(n) BY <1>3
  <2>2. n \in Nat /\ n + 1 \in 0 .. k + 1 OBVIOUS
  <2>3. Longer(f[s], l) \in Words(n + 1) BY <2>1, <2>2, LongerIs
  <2> QED BY <2>2, <2>3 DEF UpTo
<1>5. g \in [0 .. m -> UpTo(k + 1)] BY <1>2, <1>4
<1>6. g[0] = Longer(x, l) /\ g[m] = Longer(z, l)
  <2>1. 0 \in 0 .. m /\ m \in 0 .. m OBVIOUS
  <2> QED BY <2>1, <1>1, <1>2 DEF IsPath
<1>7. ASSUME NEW s \in 1 .. m PROVE g[s] = g[s - 1] \/ g[s] \in OneEdit(g[s - 1])
  <2>1. s \in 0 .. m /\ s - 1 \in 0 .. m OBVIOUS
  <2>2. g[s] = Longer(f[s], l) /\ g[s - 1] = Longer(f[s - 1], l) BY <2>1, <1>2
  <2>3. f[s] = f[s - 1] \/ f[s] \in OneEdit(f[s - 1]) BY <1>1 DEF IsPath
  <2>4. PICK n \in 0 .. k : f[s - 1] \in Words(n) BY <2>1, <1>3
  <2>5. n \in Nat OBVIOUS
  <2>6. CASE f[s] = f[s - 1] BY <2>2, <2>6
  <2>7. CASE f[s] \in OneEdit(f[s - 1])
    <3>1. Longer(f[s], l) \in OneEdit(Longer(f[s - 1], l)) BY <2>4, <2>5, <2>7, EditOfLonger
    <3> QED BY <2>2, <3>1
  <2> QED BY <2>3, <2>6, <2>7
<1>8. IsPath(g, m, k + 1, Longer(x, l), Longer(z, l)) BY <1>5, <1>6, <1>7 DEF IsPath
<1> QED BY <1>8 DEF Path

LongerOf(i, j) == IF i < j THEN j ELSE i

LEMMA BeginningIs ==
  ASSUME NEW p \in Nat, NEW a \in Words(p), NEW i \in 0 .. p
  PROVE  /\ Beginning(a, i) \in Words(i) /\ \A j \in 1 .. i : Beginning(a, i)[j] = a[j]
         /\ i \in Nat
         /\ \A k \in Nat : i <= k => Beginning(a, i) \in UpTo(k)
<1>1. \A j \in 1 .. i : a[j] \in Letters BY DEF Words
<1>2. Beginning(a, i) \in Words(i) BY <1>1 DEF Beginning, Words
<1>3. \A k \in Nat : i <= k => i \in 0 .. k OBVIOUS
<1> QED BY <1>2, <1>3 DEF Beginning, UpTo

\* The first letters of a word and the next one.
LEMMA OneMore ==
  ASSUME NEW p \in Nat, NEW a \in Words(p), NEW i \in 1 .. p
  PROVE  /\ a[i] \in Letters
         /\ Beginning(a, i) = Longer(Beginning(a, i - 1), a[i])
         /\ Beginning(a, i) \in OneEdit(Beginning(a, i - 1))
         /\ Beginning(a, i - 1) \in OneEdit(Beginning(a, i))
<1>0. i - 1 \in 0 .. p /\ i \in 0 .. p /\ i - 1 \in Nat /\ i \in Nat /\ i - 1 + 1 = i OBVIOUS
<1>1. a[i] \in Letters BY DEF Words
<1>2. PICK x : x = Beginning(a, i) OBVIOUS
<1>3. PICK y : y = Beginning(a, i - 1) OBVIOUS
<1>4. x \in Words(i) /\ \A j \in 1 .. i : x[j] = a[j] BY <1>0, <1>2, BeginningIs
<1>5. y \in Words(i - 1) /\ \A j \in 1 .. i - 1 : y[j] = a[j] BY <1>0, <1>3, BeginningIs
<1>6. PICK z : z = Longer(y, a[i]) OBVIOUS
<1>7. z \in Words(i) /\ (\A j \in 1 .. i - 1 : z[j] = y[j]) /\ z[i] = a[i]
  <2>1. z \in Words(i - 1 + 1) /\ (\A j \in 1 .. i - 1 : z[j] = y[j]) /\ z[i - 1 + 1] = a[i]
    BY <1>0, <1>1, <1>5, <1>6, LongerIs
  <2> QED BY <2>1, <1>0
<1>8. x = z
  <2>1. \A j \in 1 .. i : x[j] = z[j]
    <3> SUFFICES ASSUME NEW j \in 1 .. i PROVE x[j] = z[j] OBVIOUS
    <3>1. j = i \/ j \in 1 .. i - 1 OBVIOUS
    <3> QED BY <3>1, <1>4, <1>5, <1>7
  <2> QED BY <2>1, <1>0, <1>4, <1>7, SameWord
<1>9. z \in OneEdit(y)
  <2>1. z = Inserted(y, i - 1 + 1, a[i]) BY <1>0, <1>5, <1>6, WordLength DEF Longer
  <2>2. i - 1 + 1 \in 1 .. i - 1 + 1 OBVIOUS
  <2> QED BY <2>1, <2>2, <1>0, <1>1, <1>5, EditBack
<1>10. y \in OneEdit(x)
  <2>1. i \in 1 .. i OBVIOUS
  <2>2. Removed(x, i) \in Words(i - 1) /\ \A j \in 1 .. i - 1 : Removed(x, i)[j] = IF j < i THEN x[j] ELSE x[j + 1]
    BY <2>1, <1>0, <1>4, RemovedIs
  <2>3. PICK r : r = Removed(x, i) OBVIOUS
  <2>4. r \in Words(i - 1) BY <2>2, <2>3
  <2>5. \A j \in 1 .. i - 1 : r[j] = y[j]
    <3> SUFFICES ASSUME NEW j \in 1 .. i - 1 PROVE r[j] = y[j] OBVIOUS
    <3>1. j < i /\ j \in 1 .. i OBVIOUS
    <3> QED BY <3>1, <2>2, <2>3, <1>4, <1>5
  <2>6. r = y BY <2>4, <2>5, <1>0, <1>5, SameWord
  <2>7. r \in OneEdit(x) BY <2>1, <2>3, <1>0, <1>4, EditBack
  <2> QED BY <2>6, <2>7
<1> QED BY <1>1, <1>2, <1>3, <1>6, <1>8, <1>9, <1>10

\* Every entry of a table is the length of a path, through words no longer than the two:
\* letters are taken away first and put in last.
LEMMA TableIsPaths ==
  ASSUME NEW p \in Nat, NEW q \in Nat, NEW a \in Words(p), NEW b \in Words(q), NEW t, IsTable(t, a, p, b, q)
  PROVE  \A i \in 0 .. p : \A j \in 0 .. q : Path(t[i][j], LongerOf(i, j), Beginning(a, i), Beginning(b, j))
<1> DEFINE Good(i, j) == Path(t[i][j], LongerOf(i, j), Beginning(a, i), Beginning(b, j))
           G == {x \in (0 .. p) \X (0 .. q) : Good(x[1], x[2])}
<1>1. \A i \in 0 .. p : \A j \in 0 .. q : <<i, j>> \in G <=> Good(i, j) OBVIOUS
<1> HIDE DEF G, Good
<1>2. ASSUME NEW i \in 0 .. p, NEW j \in 0 .. q,
             \A m \in 0 .. p : \A l \in 0 .. q : m + l < i + j => <<m, l>> \in G
      PROVE  Good(i, j)
  <2>1. PICK k : k = LongerOf(i, j) OBVIOUS
  <2>2. k \in Nat /\ i <= k /\ j <= k BY <2>1 DEF LongerOf
  <2>3. PICK x : x = Beginning(a, i) OBVIOUS
  <2>4. PICK y : y = Beginning(b, j) OBVIOUS
  <2>5. x \in UpTo(k) /\ y \in UpTo(k) BY <2>2, <2>3, <2>4, BeginningIs
  <2>6. ASSUME i # 0, t[i][j] = t[i - 1][j] + 1 PROVE Good(i, j)
    <3>1. i \in 1 .. p /\ i - 1 \in 0 .. p /\ i - 1 + j < i + j BY <2>6
    <3>2. Good(i - 1, j) BY <3>1, <1>1, <1>2
    <3>3. PICK m : m = t[i - 1][j] OBVIOUS
    <3>4. m \in Nat BY <3>1, <3>3 DEF IsTable
    <3>5. PICK w : w = Beginning(a, i - 1) OBVIOUS
    <3>6. PICK h : h = LongerOf(i - 1, j) OBVIOUS
    <3>7. h \in Nat /\ h <= k BY <3>1, <3>6, <2>1 DEF LongerOf
    <3>8. Path(m, h, w, y) BY <3>2, <3>3, <3>5, <3>6, <2>4 DEF Good
    <3>9. Path(m, k, w, y) BY <3>7, <3>8, <2>2, PathWider
    <3>10. w \in OneEdit(x) BY <3>1, <3>5, <2>3, OneMore
    <3>11. Path(m + 1, k, x, y) BY <3>4, <3>9, <3>10, <2>5, PathFirst
    <3> QED BY <3>3, <3>11, <2>1, <2>3, <2>4, <2>6 DEF Good
  <2>7. ASSUME j # 0, t[i][j] = t[i][j - 1] + 1 PROVE Good(i, j)
    <3>1. j \in 1 .. q /\ j - 1 \in 0 .. q /\ i + (j - 1) < i + j BY <2>7
    <3>2. Good(i, j - 1) BY <3>1, <1>1, <1>2
    <3>3. PICK m : m = t[i][j - 1] OBVIOUS
    <3>4. m \in Nat BY <3>1, <3>3 DEF IsTable
    <3>5. PICK w : w = Beginning(b, j - 1) OBVIOUS
    <3>6. PICK h : h = LongerOf(i, j - 1) OBVIOUS
    <3>7. h \in Nat /\ h <= k BY <3>1, <3>6, <2>1 DEF LongerOf
    <3>8. Path(m, h, x, w) BY <3>2, <3>3, <3>5, <3>6, <2>3 DEF Good
    <3>9. Path(m, k, x, w) BY <3>7, <3>8, <2>2, PathWider
    <3>10. y \in OneEdit(w) BY <3>1, <3>5, <2>4, OneMore
    <3>11. Path(m + 1, k, x, y) BY <3>4, <3>9, <3>10, <2>5, PathLast
    <3> QED BY <3>3, <3>11, <2>1, <2>3, <2>4, <2>7 DEF Good
  <2>8. ASSUME i # 0, j # 0, t[i][j] = t[i - 1][j - 1] + Cost(a, i, b, j) PROVE Good(i, j)
    <3>1. i \in 1 .. p /\ i - 1 \in 0 .. p /\ j \in 1 .. q /\ j - 1 \in 0 .. q /\ i - 1 + (j - 1) < i + j BY <2>8
    <3>2. Good(i - 1, j - 1) BY <3>1, <1>1, <1>2
    <3>3. PICK m : m = t[i - 1][j - 1] OBVIOUS
    <3>4. m \in Nat BY <3>1, <3>3 DEF IsTable
    <3>5. PICK v : v = Beginning(a, i - 1) OBVIOUS
    <3>6. PICK w : w = Beginning(b, j - 1) OBVIOUS
    <3>7. PICK h : h = LongerOf(i - 1, j - 1) OBVIOUS
    <3>8. h \in Nat /\ h + 1 = k BY <3>1, <3>7, <2>1 DEF LongerOf
    <3>9. Path(m, h, v, w) BY <3>2, <3>3, <3>5, <3>6, <3>7 DEF Good
    <3>10. a[i] \in Letters /\ x = Longer(v, a[i]) BY <3>1, <3>5, <2>3, OneMore
    <3>11. b[j] \in Letters /\ y = Longer(w, b[j]) BY <3>1, <3>6, <2>4, OneMore
    <3>12. PICK z : z = Longer(w, a[i]) OBVIOUS
    <3>13. Path(m, k, x, z) BY <3>4, <3>8, <3>9, <3>10, <3>12, PathLonger
    <3>14. CASE a[i] = b[j]
      <4>1. t[i][j] = m BY <3>3, <3>4, <3>14, <2>8 DEF Cost
      <4>2. z = y BY <3>11, <3>12, <3>14
      <4> QED BY <4>1, <4>2, <3>13, <2>1, <2>3, <2>4 DEF Good
    <3>15. CASE a[i] # b[j]
      <4>1. t[i][j] = m + 1 BY <3>3, <3>15, <2>8 DEF Cost
      <4>2. j - 1 \in Nat /\ j - 1 + 1 = j /\ j \in Nat /\ j \in 1 .. j BY <3>1
      <4>3. w \in Words(j - 1) BY <3>1, <3>6, BeginningIs
      <4>4. z \in Words(j) /\ \A s \in 1 .. j - 1 : z[s] = w[s]
        <5>1. z \in Words(j - 1 + 1) /\ \A s \in 1 .. j - 1 : z[s] = w[s] BY <4>2, <4>3, <3>10, <3>12, LongerIs
        <5> QED BY <5>1, <4>2
      <4>5. y \in Words(j) /\ (\A s \in 1 .. j - 1 : y[s] = w[s]) /\ y[j] = b[j]
        <5>1. y \in Words(j - 1 + 1) /\ (\A s \in 1 .. j - 1 : y[s] = w[s]) /\ y[j - 1 + 1] = b[j]
          BY <4>2, <4>3, <3>11, LongerIs
        <5> QED BY <5>1, <4>2
      <4>6. PICK r : r = Replaced(z, j, b[j]) OBVIOUS
      <4>7. r \in Words(j) /\ \A s \in 1 .. j : r[s] = IF s = j THEN b[j] ELSE z[s]
        BY <4>2, <4>4, <4>6, <3>11, ReplacedIs
      <4>8. \A s \in 1 .. j : r[s] = y[s]
        <5> SUFFICES ASSUME NEW s \in 1 .. j PROVE r[s] = y[s] OBVIOUS
        <5>1. s = j \/ s \in 1 .. j - 1 BY <4>2
        <5> QED BY <5>1, <4>4, <4>5, <4>7
      <4>9. r = y BY <4>2, <4>5, <4>7, <4>8, SameWord
      <4>10. r \in OneEdit(z) BY <4>2, <4>4, <4>6, <3>11, EditBack
      <4>11. Path(m + 1, k, x, y) BY <4>9, <4>10, <3>4, <3>13, <2>5, PathLast
      <4> QED BY <4>1, <4>11, <2>1, <2>3, <2>4 DEF Good
    <3> QED BY <3>14, <3>15
  <2>9. CASE i = 0 /\ j = 0
    <3>1. t[i][j] = 0 BY <2>9 DEF IsTable
    <3>2. x \in Words(0) /\ y \in Words(0) BY <2>3, <2>4, <2>9, BeginningIs
    <3>3. x = y
      <4>1. \A s \in 1 .. 0 : x[s] = y[s] OBVIOUS
      <4> QED BY <3>2, <4>1, SameWord
    <3>4. PICK f : f = [s \in 0 .. 0 |-> x] OBVIOUS
    <3>5. f \in [0 .. 0 -> UpTo(k)] BY <3>4, <2>5
    <3>6. f[0] = x /\ \A s \in 1 .. 0 : FALSE BY <3>4
    <3>7. IsPath(f, 0, k, x, y) BY <3>3, <3>5, <3>6 DEF IsPath
    <3>8. Path(0, k, x, y) BY <3>7 DEF Path
    <3> QED BY <3>1, <3>8, <2>1, <2>3, <2>4 DEF Good
  <2>10. CASE i = 0 /\ j # 0
    <3>1. j - 1 \in 0 .. q BY <2>10
    <3>2. t[0][j] = j /\ t[0][j - 1] = j - 1 BY <3>1 DEF IsTable
    <3>3. t[i][j] = t[i][j - 1] + 1 BY <3>2, <2>10
    <3> QED BY <3>3, <2>7, <2>10
  <2>11. CASE i # 0 /\ j = 0
    <3>1. i - 1 \in 0 .. p BY <2>11
    <3>2. t[i][0] = i /\ t[i - 1][0] = i - 1 BY <3>1 DEF IsTable
    <3>3. t[i][j] = t[i - 1][j] + 1 BY <3>2, <2>11
    <3> QED BY <3>3, <2>6, <2>11
  <2>12. CASE i # 0 /\ j # 0
    <3>1. i \in 1 .. p /\ j \in 1 .. q BY <2>12
    <3>2. IsLeast(t[i][j], t[i - 1][j] + 1, t[i][j - 1] + 1, t[i - 1][j - 1] + Cost(a, i, b, j)) BY <3>1 DEF IsTable
    <3>3. t[i][j] = t[i - 1][j] + 1 \/ t[i][j] = t[i][j - 1] + 1 \/ t[i][j] = t[i - 1][j - 1] + Cost(a, i, b, j)
      BY <3>2 DEF IsLeast
    <3> QED BY <3>3, <2>6, <2>7, <2>8, <2>12
  <2> QED BY <2>9, <2>10, <2>11, <2>12
<1>3. GridHolds(G, p, q) BY <1>1, <1>2 DEF GridHolds
<1>4. \A i \in 0 .. p : \A j \in 0 .. q : Good(i, j) BY <1>1, <1>3, GridInduction
<1> QED BY <1>4 DEF Good

\* A path leads to where so many edits do.
LEMMA PathIsWithin ==
  ASSUME NEW a \in PackageNames, NEW b, NEW m \in Nat, NEW n \in 0 .. MaxName, m <= n, Path(m, MaxName, a, b)
  PROVE  b \in Within(a)[n]
<1>0. MaxName \in Nat /\ UpTo(MaxName) = PackageNames BY SecurityAssumption DEF UpTo, Words, PackageNames
<1>1. PICK f : IsPath(f, m, MaxName, a, b) BY DEF Path
<1> DEFINE At(s) == IF s < m THEN s ELSE m
           Bad == {s \in 0 .. MaxName : f[At(s)] \notin Within(a)[s]}
<1>2. Bad = {}
  <2> SUFFICES ASSUME Bad # {} PROVE FALSE OBVIOUS
  <2>0. Bad \subseteq Nat OBVIOUS
  <2>1. PICK s \in Bad : \A k \in Bad : s <= k BY <2>0, LeastOf
  <2>2. s \in 0 .. MaxName /\ f[At(s)] \notin Within(a)[s] BY <2>1
  <2>3. s # 0
    <3>1. ASSUME s = 0 PROVE FALSE
      <4>1. At(s) = 0 BY <3>1
      <4>2. f[0] = a BY <1>1 DEF IsPath
      <4>3. Within(a)[0] = {a} BY WithinIs
      <4> QED BY <4>1, <4>2, <4>3, <3>1, <2>2
    <3> QED BY <3>1
  <2>4. s \in 1 .. MaxName /\ s - 1 \in 0 .. MaxName /\ ~ (s <= s - 1) BY <2>2, <2>3, <1>0
  <2>5. f[At(s - 1)] \in Within(a)[s - 1] BY <2>4, <2>1
  <2>6. Within(a)[s] = OneFurther(Within(a)[s - 1]) BY <2>4, WithinIs
  <2>7. At(s) = At(s - 1) \/ (At(s) \in 1 .. m /\ At(s - 1) = At(s) - 1) BY <2>4, <1>0
  <2>8. At(s) \in 0 .. m BY <2>4, <1>0
  <2> HIDE DEF At
  <2>9. f[At(s)] = f[At(s - 1)] \/ f[At(s)] \in OneEdit(f[At(s - 1)]) BY <2>7, <1>1 DEF IsPath
  <2>10. f[At(s)] \in PackageNames BY <2>8, <1>0, <1>1 DEF IsPath
  <2> QED BY <2>2, <2>5, <2>6, <2>9, <2>10 DEF OneFurther
<1>3. At(n) = m /\ n \in 0 .. MaxName OBVIOUS
<1>4. f[At(n)] \in Within(a)[n] BY <1>2, <1>3
<1> QED BY <1>1, <1>3, <1>4 DEF IsPath

\* The distance the code computes is the number of edits.
LEMMA DistanceCountsEdits ==
  ASSUME NEW a \in PackageNames, NEW b \in PackageNames, NEW n \in 0 .. MaxName
  PROVE  b \in Within(a)[n] <=> LevenshteinDistance(a, b) <= n
<1>1. PICK p \in 0 .. MaxName : p \in Nat /\ a \in Words(p) BY NamesAreWords
<1>2. PICK q \in 0 .. MaxName : q \in Nat /\ b \in Words(q) BY NamesAreWords
<1>3. PICK t : IsTable(t, a, p, b, q) /\ LevenshteinDistance(a, b) = t[p][q] BY <1>1, <1>2, DistanceIsOfATable
<1>4. ASSUME b \in Within(a)[n] PROVE t[p][q] <= n BY <1>1, <1>2, <1>3, <1>4, WithinIsNear
<1>5. ASSUME t[p][q] <= n PROVE b \in Within(a)[n]
  <2>1. p \in 0 .. p /\ q \in 0 .. q BY <1>1, <1>2
  <2>2. PICK m \in Nat : m = t[p][q] BY <2>1, <1>3 DEF IsTable
  <2>3. Path(m, LongerOf(p, q), Beginning(a, p), Beginning(b, q))
    BY <2>1, <2>2, <1>1, <1>2, <1>3, TableIsPaths
  <2>4. Beginning(a, p) = a
    <3>1. Beginning(a, p) \in Words(p) /\ \A j \in 1 .. p : Beginning(a, p)[j] = a[j] BY <2>1, <1>1, BeginningIs
    <3> QED BY <3>1, <1>1, SameWord
  <2>5. Beginning(b, q) = b
    <3>1. Beginning(b, q) \in Words(q) /\ \A j \in 1 .. q : Beginning(b, q)[j] = b[j] BY <2>1, <1>2, BeginningIs
    <3> QED BY <3>1, <1>2, SameWord
  <2>6. PICK h : h = LongerOf(p, q) OBVIOUS
  <2>7. h \in Nat /\ h <= MaxName /\ MaxName \in Nat BY <2>6, <1>1, <1>2, SecurityAssumption DEF LongerOf
  <2>8. Path(m, h, a, b) BY <2>3, <2>4, <2>5, <2>6
  <2>9. Path(m, MaxName, a, b) BY <2>7, <2>8, PathWider
  <2>10. m <= n BY <2>2, <1>5
  <2> QED BY <2>9, <2>10, PathIsWithin
<1> QED BY <1>3, <1>4, <1>5

\* Whatever is scanned, gated and stored in whatever order, in both modes of the gate: nothing
\* with a high or critical finding is allowed, scans that pass together pass in every part
\* (PolicyEnforcer.evaluate_gate), and the distance of two package names of any length is the
\* number of letters to insert, remove or replace (_levenshtein_distance).
THEOREM GateHolds == SecuritySpec => []GateIsTight
<1>1. SecurityInit => SecurityInv BY SecurityStart
<1>2. SecurityInv /\ [SecurityNext]_securityVars => SecurityInv'
  <2> SUFFICES ASSUME SecurityInv, [SecurityNext]_securityVars PROVE SecurityInv' OBVIOUS
  <2>1. SecurityNext \/ UNCHANGED securityVars OBVIOUS
  <2> QED BY <2>1, SecurityStep
<1>3. SecurityInv => GateIsTight
  <2> SUFFICES ASSUME SecurityInv PROVE GateIsTight OBVIOUS
  <2>1. SecurityTypeOK BY SecurityTypes
  <2>2. AllowedIsClean BY AllowedSays
  <2>3. GateIsMonotone BY PartsPass
  <2>4. DistanceIsEdits
    <3>1. names[1] \in PackageNames /\ names[2] \in PackageNames BY DEF SecurityInv
    <3> QED BY <3>1, DistanceCountsEdits DEF DistanceIsEdits
  <2> QED BY <2>1, <2>2, <2>3, <2>4 DEF GateIsTight
<1> QED BY <1>1, <1>2, <1>3, PTL DEF SecuritySpec

\* No scan takes back a status that somebody gave a finding (_store_scan, update_finding_status).
THEOREM TriageHolds == SecuritySpec => TriageIsKept
<1>1. SecurityInit => SecurityInv BY SecurityStart
<1>2. SecurityInv /\ [SecurityNext]_securityVars => SecurityInv' /\ [TriageStep]_securityVars
  <2> SUFFICES ASSUME SecurityInv, [SecurityNext]_securityVars PROVE SecurityInv' /\ TriageStep OBVIOUS
  <2>1. SecurityNext \/ UNCHANGED securityVars OBVIOUS
  <2> QED BY <2>1, SecurityStep
<1> QED BY <1>1, <1>2, PTL DEF SecuritySpec, TriageIsKept
==============================================================================
