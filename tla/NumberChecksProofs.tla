-------------------------- MODULE NumberChecksProofs --------------------------
(***************************************************************************)
(* The theorem of NumberChecks: no contact is taken to be off WhatsApp     *)
(* without WhatsApp having said so, for any numbers, sessions, budgets and *)
(* lengths of the two memories.                                            *)
(***************************************************************************)
EXTENDS NumberChecks, TLAPS

\* Questions and answers of a pass, the gateway's answers, contacts.
QuestionType == [at : Msgs, number : Numbers, of : Contacts]
AnswerType   == [number : Numbers, yes : BOOLEAN]
CacheType   == [known : {TRUE}, yes : BOOLEAN, age : 0 .. CheckTTL + 1]
ContactType == [number : Numbers \union {NoNumber}, optout : BOOLEAN,
                answer : {"none", "yes", "no"}, age : 0 .. TTL + 1,
                about : Numbers \union {NoNumber}]
\* What the session of a pass is does not matter here.
PassType(S) == [pc : {"batch", "asking", "write"}, ses : S,
                asked : SUBSET QuestionType, left : SUBSET QuestionType,
                rest : SUBSET QuestionType, ask : SUBSET QuestionType,
                got : SUBSET AnswerType, short : BOOLEAN, read : BOOLEAN,
                moved : SUBSET Contacts]
RunType(r) == r = NoRun \/ \E S : r \in PassType(S)

\* The part of the types the theorem needs.
Types ==
    /\ noSaid \in [Numbers -> 0 .. Old]
    /\ cache \in [Numbers -> CacheType \union {NoAnswer}]
    /\ contact \in [Contacts -> ContactType]
    /\ RunType(run)

\* Wherever a no is held - in the gateway's cache, in a pass or on a contact - it
\* is not younger than what WhatsApp said, and its age tells by how much.
NoInv ==
    /\ \A n \in Numbers : cache[n].known /\ ~cache[n].yes /\ cache[n].age <= CheckTTL
          => noSaid[n] <= cache[n].age
    /\ ~Idle => \A a \in run.got : ~a.yes => noSaid[a.number] <= CheckTTL
    /\ \A c \in Contacts : contact[c].answer = "no" /\ contact[c].age <= TTL
          => /\ contact[c].about \in Numbers
             /\ noSaid[contact[c].about] <= contact[c].age + CheckTTL

----------------------------------------------------------------------------
LEMMA Constants ==
    /\ TTL \in Nat /\ CheckTTL \in Nat /\ Old \in Nat /\ Old > TTL + CheckTTL
    /\ NoNumber \notin Numbers /\ Hour \in Nat
    /\ SessionOf \in [Msgs -> Sessions] /\ ContactOf \in [Msgs -> Contacts]
  BY ChecksAssumption DEF ChecksAssumption, Old

LEMMA IdleRun == RunType(run) => (Idle <=> run = NoRun)
  BY DEF NoRun, PassType, RunType, Idle

LEMMA CacheFields ==
    ASSUME NEW entry \in CacheType \union {NoAnswer}
    PROVE  /\ entry.known \in BOOLEAN
           /\ entry.known => entry \in CacheType /\ entry.age \in 0 .. CheckTTL + 1 /\ entry.yes \in BOOLEAN
           /\ ~entry.known => entry = NoAnswer
<1>1. NoAnswer.known = FALSE
  BY DEF NoAnswer
<1>2. ASSUME entry \in CacheType
      PROVE  entry.known = TRUE /\ entry.age \in 0 .. CheckTTL + 1 /\ entry.yes \in BOOLEAN
  BY <1>2 DEF CacheType
<1> QED BY <1>1, <1>2

\* A pass goes on to questions it had, with nothing answered yet, or ends.
LEMMA OnwardType ==
    ASSUME NEW questions \in SUBSET QuestionType, NEW read \in BOOLEAN, NEW moved \in SUBSET Contacts
    PROVE  /\ RunType(Onward(questions, read, moved))
           /\ Onward(questions, read, moved) # NoRun => Onward(questions, read, moved).got = {}
<1>1. CASE questions = {}
  BY <1>1 DEF Onward, RunType
<1>2. CASE questions # {}
  <2> DEFINE first == CHOOSE q \in questions : \A r \in questions : q.at <= r.at
             its   == {q \in questions : SessionOf[q.at] = SessionOf[first.at]}
             now   == First(its, AskLimit)
             next  == [pc |-> "batch", ses |-> SessionOf[first.at], asked |-> now, left |-> now,
                       rest |-> questions \ its, ask |-> {}, got |-> {}, short |-> FALSE,
                       read |-> read, moved |-> moved]
  <2>1. Onward(questions, read, moved) = next
    BY <1>2 DEF Onward
  <2>2. now \in SUBSET QuestionType /\ questions \ its \in SUBSET QuestionType
    BY DEF First
  <2>3. next \in PassType({SessionOf[first.at]}) /\ next.got = {}
    <3> HIDE DEF now, its, first
    <3> QED BY <2>2 DEF PassType
  <2> HIDE DEF next
  <2> QED BY <2>1, <2>3 DEF RunType
<1> QED BY <1>1, <1>2

\* A session that is skipped takes no answer along.
LEMMA SkipType ==
    ASSUME RunType(run), ~Idle
    PROVE  RunType(SkipSession) /\ (SkipSession # NoRun => SkipSession.got = {})
<1>1. run.rest \in SUBSET QuestionType /\ run.moved \in SUBSET Contacts
  BY IdleRun DEF RunType, PassType
<1> QED BY <1>1, OnwardType DEF SkipSession

LEMMA BatchType ==
    ASSUME RunType(run), ~Idle
    PROVE  /\ Batch \in SUBSET QuestionType /\ Misses \in SUBSET QuestionType
           /\ \A q \in Batch : q.number \in Numbers
<1>1. run.left \in SUBSET QuestionType
  BY IdleRun DEF RunType, PassType
<1> QED BY <1>1 DEF Batch, First, Misses, QuestionType

LEMMA AfterBatchType ==
    ASSUME RunType(run), ~Idle, NEW got \in SUBSET AnswerType, NEW short \in BOOLEAN
    PROVE  RunType(AfterBatch(got, short)) /\ AfterBatch(got, short).got = got
<1>1. PICK S : run \in PassType(S)
  BY IdleRun DEF RunType
<1>2. run.left \ Batch \in SUBSET QuestionType
  BY <1>1 DEF PassType
<1>3. AfterBatch(got, short) \in PassType(S) /\ AfterBatch(got, short).got = got
  BY <1>1, <1>2 DEF AfterBatch, PassType
<1> QED BY <1>3 DEF RunType

\* What is served from the cache was said within the time the cache keeps it.
LEMMA CachedAnswers ==
    ASSUME Types, NoInv, ~Idle
    PROVE  /\ run.got \union FromCache \in SUBSET AnswerType
           /\ \A a \in run.got \union FromCache : ~a.yes => noSaid[a.number] <= CheckTTL
<1>1. run.got \in SUBSET AnswerType
  BY IdleRun DEF Types, RunType, PassType
<1>2. ASSUME NEW q \in Batch \ Misses
      PROVE  /\ [number |-> q.number, yes |-> cache[q.number].yes] \in AnswerType
             /\ ~cache[q.number].yes => noSaid[q.number] <= CheckTTL
  <2>1. q.number \in Numbers /\ cache[q.number].known /\ cache[q.number].age <= CheckTTL
    BY <1>2, BatchType DEF Misses, Cached, Types
  <2>2. cache[q.number].yes \in BOOLEAN /\ cache[q.number].age \in Nat
    BY <2>1, CacheFields, Constants DEF Types
  <2>3. noSaid[q.number] \in Nat
    BY <2>1 DEF Types
  <2> QED BY <2>1, <2>2, <2>3, Constants DEF AnswerType, NoInv
<1> QED BY <1>1, <1>2 DEF FromCache, NoInv, AnswerType

\* What WhatsApp says makes what is remembered of it younger, never older.
LEMMA SayKeeps ==
    ASSUME Types, NoInv, NEW numbers \in SUBSET Numbers, Say(numbers)
    PROVE  /\ noSaid' \in [Numbers -> 0 .. Old]
           /\ cache' \in [Numbers -> CacheType \union {NoAnswer}]
           /\ \A n \in Numbers : noSaid'[n] <= noSaid[n]
           /\ \A n \in Answering(numbers) \ onWhatsApp : noSaid'[n] = 0
           /\ \A n \in Numbers : cache'[n].known /\ ~cache'[n].yes /\ cache'[n].age <= CheckTTL
                 => noSaid'[n] <= cache'[n].age
<1>1. /\ noSaid' \in [Numbers -> 0 .. Old]
      /\ \A n \in Numbers : noSaid'[n] <= noSaid[n]
      /\ \A n \in Answering(numbers) \ onWhatsApp : noSaid'[n] = 0
  BY Constants DEF Say, Types, Answering
<1>2. ASSUME NEW n \in Numbers
      PROVE  /\ cache'[n] \in CacheType \union {NoAnswer}
             /\ cache'[n].known /\ ~cache'[n].yes /\ cache'[n].age <= CheckTTL
                   => noSaid'[n] <= cache'[n].age
  <2>1. CASE n \in Answering(numbers)
    <3>1. cache'[n] = [known |-> TRUE, yes |-> n \in onWhatsApp, age |-> 0]
      BY <2>1 DEF Say
    <3>2. 0 \in 0 .. CheckTTL + 1 /\ (n \in onWhatsApp) \in BOOLEAN
      BY Constants
    <3>3. cache'[n] \in CacheType /\ cache'[n].age = 0 /\ cache'[n].yes = (n \in onWhatsApp)
      BY <3>1, <3>2 DEF CacheType
    <3>4. ~cache'[n].yes => noSaid'[n] = 0
      BY <1>1, <2>1, <3>3
    <3> QED BY <3>3, <3>4
  <2>2. CASE n \notin Answering(numbers)
    <3>1. cache'[n] = cache[n]
      BY <2>2 DEF Say
    <3>2. cache[n] \in CacheType \union {NoAnswer} /\ noSaid[n] \in Nat /\ noSaid'[n] \in Nat
      BY <1>1 DEF Types
    <3>3. cache[n].known => cache[n].age \in Nat
      BY <3>2, CacheFields, Constants
    <3> QED BY <1>1, <3>1, <3>2, <3>3 DEF NoInv
  <2> QED BY <2>1, <2>2
<1>3. cache' \in [Numbers -> CacheType \union {NoAnswer}]
  BY <1>2 DEF Say
<1> QED BY <1>1, <1>2, <1>3

\* The conjuncts a step leaves alone, when what WhatsApp said has only become
\* younger: contacts as they are, or without their answer.
LEMMA ContactsKeep ==
    ASSUME Types, NoInv,
           noSaid' \in [Numbers -> 0 .. Old], \A n \in Numbers : noSaid'[n] <= noSaid[n],
           contact' \in [Contacts -> ContactType],
           \A c \in Contacts : contact'[c].answer = "no" =>
              /\ contact[c].answer = "no"
              /\ contact'[c].age = contact[c].age
              /\ contact'[c].about = contact[c].about
    PROVE  \A c \in Contacts : contact'[c].answer = "no" /\ contact'[c].age <= TTL
              => /\ contact'[c].about \in Numbers
                 /\ noSaid'[contact'[c].about] <= contact'[c].age + CheckTTL
<1> SUFFICES ASSUME NEW c \in Contacts, contact'[c].answer = "no", contact'[c].age <= TTL
             PROVE  /\ contact'[c].about \in Numbers
                    /\ noSaid'[contact'[c].about] <= contact'[c].age + CheckTTL
  OBVIOUS
<1>1. contact[c].about \in Numbers /\ noSaid[contact[c].about] <= contact[c].age + CheckTTL
  BY DEF NoInv
<1>2. contact[c].age \in Nat
  <2>1. contact[c] \in ContactType
    BY DEF Types
  <2> QED BY <2>1, Constants DEF ContactType
<1>3. noSaid[contact[c].about] \in Nat /\ noSaid'[contact[c].about] \in Nat
  BY <1>1 DEF Types
<1> QED BY <1>1, <1>2, <1>3, Constants

\* A pass that holds no answers holds no no.
LEMMA EmptyRun ==
    ASSUME run' # NoRun => run'.got = {}, RunType(run')
    PROVE  ~Idle' => \A a \in run'.got : ~a.yes => noSaid'[a.number] <= CheckTTL
  BY DEF Idle, NoRun

\* A pass that goes on as it is keeps its answers.
LEMMA SameRun ==
    ASSUME Types, NoInv,
           noSaid' \in [Numbers -> 0 .. Old], \A n \in Numbers : noSaid'[n] <= noSaid[n],
           Idle' => Idle, Idle => Idle', ~Idle => run'.got = run.got
    PROVE  ~Idle' => \A a \in run'.got : ~a.yes => noSaid'[a.number] <= CheckTTL
<1> SUFFICES ASSUME ~Idle, NEW a \in run.got, ~a.yes
             PROVE  noSaid'[a.number] <= CheckTTL
  OBVIOUS
<1>1. a.number \in Numbers
  BY IdleRun DEF Types, RunType, PassType, AnswerType
<1>2. noSaid[a.number] <= CheckTTL
  BY DEF NoInv
<1>3. noSaid[a.number] \in Nat /\ noSaid'[a.number] \in Nat
  BY <1>1 DEF Types
<1> QED BY <1>1, <1>2, <1>3, Constants

Good == Types /\ NoInv

\* What a session's pass does to what is known.
LEMMA PostStep == ASSUME Good, Post PROVE Good'
<1> USE DEF Good
<1>1. ~Idle /\ run.pc = "batch"
  BY DEF Post, Idle
<1>2. /\ noSaid' = noSaid /\ cache' = cache /\ contact' = contact
  BY DEF Post, world, gateway
<1>3. /\ RunType(run')
      /\ ~Idle' => \A a \in run'.got : ~a.yes => noSaid'[a.number] <= CheckTTL
  <2>1. ASSUME NEW short \in BOOLEAN, run' = AfterBatch(run.got \union FromCache, short)
        PROVE  /\ RunType(run')
               /\ \A a \in run'.got : ~a.yes => noSaid'[a.number] <= CheckTTL
    BY <1>1, <1>2, <2>1, CachedAnswers, AfterBatchType DEF Types
  <2>2. ASSUME run' = SkipSession
        PROVE  /\ RunType(run')
               /\ ~Idle' => \A a \in run'.got : ~a.yes => noSaid'[a.number] <= CheckTTL
    BY <1>1, <2>2, SkipType, EmptyRun DEF Types
  <2>3. ASSUME NEW granted, NEW short \in BOOLEAN,
               run' = [run EXCEPT !.pc = "asking", !.ask = First(Misses, granted), !.read = TRUE,
                                  !.got = @ \union FromCache, !.short = short]
        PROVE  /\ RunType(run')
               /\ \A a \in run'.got : ~a.yes => noSaid'[a.number] <= CheckTTL
    <3>1. First(Misses, granted) \in SUBSET QuestionType
      BY <1>1, BatchType DEF First, Types
    <3>2. PICK S : run \in PassType(S)
      BY <1>1, IdleRun DEF Types, RunType
    <3>3. run.got \union FromCache \in SUBSET AnswerType
      BY <1>1, CachedAnswers
    <3>4. run' \in PassType(S) /\ run'.got = run.got \union FromCache
      BY <2>3, <3>1, <3>2, <3>3 DEF PassType
    <3> QED BY <1>1, <1>2, <3>4, CachedAnswers DEF RunType
  <2>4. (Grant(run.ses, Cardinality(Misses)) < Cardinality(Misses)) \in BOOLEAN
    OBVIOUS
  <2> QED BY <2>1, <2>2, <2>3, <2>4 DEF Post
<1> QED BY <1>2, <1>3 DEF Types, NoInv

LEMMA AnswerStep == ASSUME Good, Answer PROVE Good'
<1> USE DEF Good
<1>1. ~Idle /\ run.pc = "asking" /\ contact' = contact /\ onWhatsApp' = onWhatsApp
  BY DEF Answer, Idle
<1>2. PICK S : run \in PassType(S)
  BY <1>1, IdleRun DEF Types, RunType
<1>3. Asked \in SUBSET Numbers
  BY <1>2 DEF Asked, PassType, QuestionType
<1>4. Say(Asked)
  BY DEF Answer
<1>5. /\ noSaid' \in [Numbers -> 0 .. Old]
      /\ cache' \in [Numbers -> CacheType \union {NoAnswer}]
      /\ \A n \in Numbers : noSaid'[n] <= noSaid[n]
      /\ \A n \in Answering(Asked) \ onWhatsApp : noSaid'[n] = 0
      /\ \A n \in Numbers : cache'[n].known /\ ~cache'[n].yes /\ cache'[n].age <= CheckTTL
            => noSaid'[n] <= cache'[n].age
  BY <1>3, <1>4, SayKeeps
<1> DEFINE new == {[number |-> n, yes |-> n \in onWhatsApp] : n \in Answering(Asked)}
<1>6. run.got \in SUBSET AnswerType /\ run.short \in BOOLEAN
  BY <1>2 DEF PassType
<1>7. new \in SUBSET AnswerType
  <2>1. ASSUME NEW n \in Numbers, NEW yes \in BOOLEAN PROVE [number |-> n, yes |-> yes] \in AnswerType
    BY DEF AnswerType
  <2>2. ASSUME NEW n \in Answering(Asked) PROVE [number |-> n, yes |-> n \in onWhatsApp] \in AnswerType
    <3>1. n \in Numbers /\ (n \in onWhatsApp) \in BOOLEAN
      BY <1>3 DEF Answering
    <3> QED BY <2>1, <3>1
  <2> QED BY <2>2, Zenon
<1>8. (run.short \/ Asked \intersect Silent # {}) \in BOOLEAN
  BY <1>6
<1>9. RunType(run') /\ run'.got = run.got \union new
  <2>1. run' = AfterBatch(run.got \union new, run.short \/ Asked \intersect Silent # {})
    BY DEF Answer
  <2> HIDE DEF new
  <2> QED BY <1>1, <1>6, <1>7, <1>8, <2>1, AfterBatchType DEF Types
<1>10. \A a \in run'.got : ~a.yes => noSaid'[a.number] <= CheckTTL
  <2>1. ASSUME NEW a \in run.got, ~a.yes
        PROVE  noSaid'[a.number] <= CheckTTL
    <3>1. a.number \in Numbers
      BY <1>6 DEF AnswerType
    <3>2. noSaid[a.number] <= CheckTTL
      BY <1>1, <2>1 DEF NoInv
    <3>3. noSaid[a.number] \in Nat /\ noSaid'[a.number] \in Nat /\ noSaid'[a.number] <= noSaid[a.number]
      BY <1>5, <3>1 DEF Types
    <3> QED BY <3>2, <3>3, Constants
  <2>2. ASSUME NEW a \in new, ~a.yes
        PROVE  noSaid'[a.number] <= CheckTTL
    <3>1. PICK n \in Answering(Asked) : a = [number |-> n, yes |-> n \in onWhatsApp]
      BY <2>2, Zenon
    <3>2. a.number = n /\ a.yes = (n \in onWhatsApp)
      BY <3>1, Zenon
    <3>3. n \notin onWhatsApp
      BY <2>2, <3>2, Zenon
    <3> QED BY <1>5, <3>1, <3>2, <3>3, Constants
  <2> HIDE DEF new
  <2> QED BY <1>9, <2>1, <2>2
<1>11. \A c \in Contacts : contact'[c].answer = "no" /\ contact'[c].age <= TTL
          => /\ contact'[c].about \in Numbers
             /\ noSaid'[contact'[c].about] <= contact'[c].age + CheckTTL
  BY <1>1, <1>5, ContactsKeep DEF Types
<1> QED BY <1>1, <1>5, <1>9, <1>10, <1>11 DEF Types, NoInv

\* An answer that is written is as old as the pass can have found it.
LEMMA WrittenNo ==
    ASSUME Types, NoInv, run.pc = "write", NEW c \in Contacts, NEW f \in Written(c)
    PROVE  /\ f \in ContactType
           /\ f.answer = "no" => f.about \in Numbers /\ f.age = 0 /\ noSaid[f.about] <= CheckTTL
<1>1. PICK a \in run.got : f = [contact[c] EXCEPT !.answer = IF a.yes THEN "yes" ELSE "no",
                                                  !.age = 0, !.about = a.number]
  BY DEF Written, Told
<1>2. a \in AnswerType
  BY IdleRun DEF Types, RunType, PassType, Idle
<1>3. a.number \in Numbers /\ a.yes \in BOOLEAN
  BY <1>2 DEF AnswerType
<1>4. ~a.yes => noSaid[a.number] <= CheckTTL
  BY DEF NoInv, Idle
<1>5. contact[c] \in ContactType
  BY DEF Types
<1>6. /\ f.answer = IF a.yes THEN "yes" ELSE "no"
      /\ f.age = 0 /\ f.about = a.number
  BY <1>1, <1>5 DEF ContactType
<1>7. f \in ContactType
  <2>1. (IF a.yes THEN "yes" ELSE "no") \in {"none", "yes", "no"} /\ 0 \in 0 .. TTL + 1
    BY Constants
  <2> QED BY <1>1, <1>3, <1>5, <2>1 DEF ContactType
<1> QED BY <1>3, <1>4, <1>6, <1>7

LEMMA WriteStep == ASSUME Good, Write PROVE Good'
<1> USE DEF Good
<1>1. run.pc = "write" /\ ~Idle /\ noSaid' = noSaid /\ cache' = cache
  BY DEF Write, Idle, world, gateway
<1>2. RunType(run') /\ (run' # NoRun => run'.got = {})
  <2>1. run.rest \in SUBSET QuestionType
    BY <1>1, IdleRun DEF Types, RunType, PassType
  <2> QED BY <2>1, OnwardType DEF Write
<1>3. ~Idle' => \A a \in run'.got : ~a.yes => noSaid'[a.number] <= CheckTTL
  BY <1>2, EmptyRun
<1>4. DOMAIN contact' = Contacts /\ contact' = [c \in Contacts |-> contact'[c]]
  BY DEF Write
<1>5. \A c \in Contacts : contact'[c] \in Written(c) \/ contact'[c] = contact[c]
  BY DEF Write
<1>6. contact' \in [Contacts -> ContactType]
  <2>1. \A c \in Contacts : contact'[c] \in ContactType
    BY <1>1, <1>5, WrittenNo DEF Types
  <2> QED BY <1>4, <2>1
<1>7. ASSUME NEW c \in Contacts, contact'[c].answer = "no", contact'[c].age <= TTL
      PROVE  /\ contact'[c].about \in Numbers
             /\ noSaid'[contact'[c].about] <= contact'[c].age + CheckTTL
  <2>1. CASE contact'[c] \in Written(c)
    BY <1>1, <1>7, <2>1, WrittenNo, Constants
  <2>2. CASE contact'[c] = contact[c]
    BY <1>1, <1>7, <2>2 DEF NoInv
  <2> QED BY <1>5, <2>1, <2>2
<1> QED BY <1>1, <1>2, <1>3, <1>6, <1>7 DEF Types, NoInv

\* A step that leaves what is known of numbers, contacts and answers alone.
LEMMA QuietStep ==
    ASSUME Good, noSaid' = noSaid, cache' = cache, contact' = contact,
           run' = run \/ (RunType(run') /\ (run' # NoRun => run'.got = {}))
    PROVE  Good'
<1> USE DEF Good
<1>1. RunType(run') /\ (~Idle' => \A a \in run'.got : ~a.yes => noSaid'[a.number] <= CheckTTL)
  <2>1. CASE run' = run
    BY <2>1 DEF Types, NoInv, Idle
  <2>2. CASE RunType(run') /\ (run' # NoRun => run'.got = {})
    BY <2>2, EmptyRun
  <2> QED BY <2>1, <2>2
<1> QED BY <1>1 DEF Types, NoInv

\* WhatsApp answers a question while the pass stays where it is or skips on.
LEMMA SayStep ==
    ASSUME Good, NEW numbers \in SUBSET Numbers, Say(numbers), contact' = contact,
           run' = run \/ (RunType(run') /\ (run' # NoRun => run'.got = {}))
    PROVE  Good'
<1> USE DEF Good
<1>1. /\ noSaid' \in [Numbers -> 0 .. Old]
      /\ cache' \in [Numbers -> CacheType \union {NoAnswer}]
      /\ \A n \in Numbers : noSaid'[n] <= noSaid[n]
      /\ \A n \in Numbers : cache'[n].known /\ ~cache'[n].yes /\ cache'[n].age <= CheckTTL
            => noSaid'[n] <= cache'[n].age
  BY SayKeeps
<1>2. RunType(run') /\ (~Idle' => \A a \in run'.got : ~a.yes => noSaid'[a.number] <= CheckTTL)
  <2>1. CASE run' = run
    <3>1. /\ Idle' => Idle
          /\ Idle => Idle'
          /\ ~Idle => run'.got = run.got
      BY <2>1 DEF Idle
    <3> QED BY <1>1, <2>1, <3>1, SameRun DEF Types
  <2>2. CASE RunType(run') /\ (run' # NoRun => run'.got = {})
    BY <2>2, EmptyRun
  <2> QED BY <2>1, <2>2
<1>3. \A c \in Contacts : contact'[c].answer = "no" /\ contact'[c].age <= TTL
          => /\ contact'[c].about \in Numbers
             /\ noSaid'[contact'[c].about] <= contact'[c].age + CheckTTL
  BY <1>1, ContactsKeep DEF Types
<1> QED BY <1>1, <1>2, <1>3 DEF Types, NoInv

\* Somebody writes to a contact while the pass is under way.
LEMMA PartnerStep ==
    ASSUME Good, NEW c \in Contacts, OptOut(c) \/ \E n \in Numbers : ChangeNumber(c, n)
    PROVE  Good'
<1> USE DEF Good
<1>1. noSaid' = noSaid /\ cache' = cache /\ Moved(c)
  BY DEF OptOut, ChangeNumber, world, gateway
<1>2. noSaid' \in [Numbers -> 0 .. Old] /\ \A n \in Numbers : noSaid'[n] <= noSaid[n]
  BY <1>1, Constants DEF Types
<1>3. /\ contact' \in [Contacts -> ContactType]
      /\ \A d \in Contacts : contact'[d].answer = "no" =>
            /\ contact[d].answer = "no"
            /\ contact'[d].age = contact[d].age
            /\ contact'[d].about = contact[d].about
  <2>1. CASE OptOut(c)
    BY <2>1, Constants DEF OptOut, Types, ContactType
  <2>2. ASSUME NEW n \in Numbers, ChangeNumber(c, n)
        PROVE  <1>3!1 /\ <1>3!2
    <3>1. contact' = [contact EXCEPT ![c] = [contact[c] EXCEPT !.number = n, !.answer = "none",
                                                               !.age = 0, !.about = NoNumber]]
      BY <2>2 DEF ChangeNumber, NewNumber, Types, ContactType
    <3>2. contact[c] \in ContactType /\ 0 \in 0 .. TTL + 1
      BY Constants DEF Types
    <3>3. contact'[c] \in ContactType /\ contact'[c].answer = "none"
      BY <3>1, <3>2 DEF ContactType, Types
    <3>4. \A d \in Contacts \ {c} : contact'[d] = contact[d]
      BY <3>1 DEF Types
    <3>5. contact' = [d \in Contacts |-> contact'[d]]
      BY <3>1 DEF Types
    <3> QED BY <3>3, <3>4, <3>5 DEF Types
  <2> QED BY <2>1, <2>2
<1>4. /\ RunType(run')
      /\ Idle' => Idle
      /\ Idle => Idle'
      /\ ~Idle => run'.got = run.got
  <2>1. CASE run' = run
    BY <2>1 DEF Types, Idle
  <2>2. CASE ~Idle /\ run' = [run EXCEPT !.moved = @ \union {c}]
    <3>1. PICK S : run \in PassType(S)
      BY <2>2, IdleRun DEF Types, RunType
    <3>2. run' \in PassType(S) /\ run'.got = run.got /\ run'.pc = run.pc
      BY <2>2, <3>1 DEF PassType
    <3> QED BY <2>2, <3>2 DEF RunType, Idle
  <2> QED BY <1>1, <2>1, <2>2 DEF Moved
<1>5. ~Idle' => \A a \in run'.got : ~a.yes => noSaid'[a.number] <= CheckTTL
  BY <1>2, <1>4, SameRun
<1>6. \A d \in Contacts : contact'[d].answer = "no" /\ contact'[d].age <= TTL
          => /\ contact'[d].about \in Numbers
             /\ noSaid'[contact'[d].about] <= contact'[d].age + CheckTTL
  BY <1>2, <1>3, ContactsKeep
<1> QED BY <1>1, <1>3, <1>4, <1>5, <1>6 DEF Types, NoInv

LEMMA RestartStep == ASSUME Good, Restart PROVE Good'
<1> USE DEF Good
<1>1. noSaid' = noSaid /\ contact' = contact /\ cache' = [n \in Numbers |-> NoAnswer]
  BY DEF Restart, world
<1>2. RunType(run') /\ (~Idle' => \A a \in run'.got : ~a.yes => noSaid'[a.number] <= CheckTTL)
  <2>1. CASE run' = run
    BY <1>1, <2>1 DEF Types, NoInv, Idle
  <2>2. CASE run.pc = "asking" /\ run' = SkipSession
    BY <2>2, SkipType, EmptyRun DEF Types, Idle
  <2> QED BY <2>1, <2>2 DEF Restart
<1>3. \A n \in Numbers : ~cache'[n].known
  BY <1>1 DEF NoAnswer
<1>4. cache' \in [Numbers -> CacheType \union {NoAnswer}]
  BY <1>1
<1> QED BY <1>1, <1>2, <1>3, <1>4 DEF Types, NoInv

LEMMA FailStep == ASSUME Good, Fail PROVE Good'
<1>1. ~Idle /\ contact' = contact /\ run' = SkipSession
  BY DEF Fail, Idle
<1>2. RunType(run') /\ (run' # NoRun => run'.got = {})
  BY <1>1, SkipType DEF Good, Types
<1>3. CASE Say(Asked)
  <2>1. Asked \in SUBSET Numbers
    BY <1>1, IdleRun DEF Good, Types, RunType, PassType, Asked, QuestionType
  <2> QED BY <1>1, <1>2, <1>3, <2>1, SayStep
<1>4. CASE cache' = cache /\ noSaid' = noSaid
  BY <1>1, <1>2, <1>4, QuietStep
<1> QED BY <1>3, <1>4 DEF Fail

\* Time makes an answer and what WhatsApp said older together, until each is too
\* old to matter.
LEMMA TickStep == ASSUME Good, Tick PROVE Good'
<1> USE DEF Good
<1>1. Idle /\ run' = run
  BY DEF Tick
<1>2. noSaid' = [n \in Numbers |-> Capped(noSaid[n], Old)]
  BY DEF Tick
<1>3. /\ noSaid' \in [Numbers -> 0 .. Old]
      /\ \A n \in Numbers : noSaid'[n] <= noSaid[n] + 1
  BY <1>2, Constants DEF Capped, Types
<1>4. ASSUME NEW n \in Numbers
      PROVE  /\ cache'[n] \in CacheType \union {NoAnswer}
             /\ cache'[n].known /\ ~cache'[n].yes /\ cache'[n].age <= CheckTTL
                   => noSaid'[n] <= cache'[n].age
  <2>1. cache[n] \in CacheType \union {NoAnswer}
    BY DEF Types
  <2>2. CASE cache[n].known
    <3>1. cache[n] \in CacheType /\ cache[n].age \in 0 .. CheckTTL + 1
      BY <2>1, <2>2, CacheFields
    <3>2. cache'[n] = [cache[n] EXCEPT !.age = Capped(@, CheckTTL + 1)]
      BY <2>2 DEF Tick
    <3>3. Capped(cache[n].age, CheckTTL + 1) \in 0 .. CheckTTL + 1
      BY <3>1, Constants DEF Capped
    <3>4. /\ cache'[n] \in CacheType
          /\ cache'[n].yes = cache[n].yes
          /\ cache'[n].age = Capped(cache[n].age, CheckTTL + 1)
      BY <3>1, <3>2, <3>3 DEF CacheType
    <3>5. ASSUME ~cache'[n].yes, cache'[n].age <= CheckTTL
          PROVE  noSaid'[n] <= cache'[n].age
      <4>1. cache[n].age <= CheckTTL /\ cache'[n].age = cache[n].age + 1
        BY <3>1, <3>4, <3>5, Constants DEF Capped
      <4>2. noSaid[n] <= cache[n].age
        BY <2>2, <3>4, <3>5, <4>1 DEF NoInv
      <4> QED BY <1>3, <3>1, <4>1, <4>2 DEF Types
    <3> QED BY <3>4, <3>5
  <2>3. CASE ~cache[n].known
    <3>1. cache'[n] = NoAnswer
      BY <2>1, <2>3, CacheFields DEF Tick
    <3> QED BY <3>1 DEF NoAnswer
  <2> QED BY <2>1, <2>2, <2>3, CacheFields
<1>5. cache' \in [Numbers -> CacheType \union {NoAnswer}]
  <2>1. cache' = [n \in Numbers |-> cache'[n]]
    BY DEF Tick
  <2> QED BY <1>4, <2>1
<1>6. ASSUME NEW c \in Contacts
      PROVE  /\ contact'[c] \in ContactType
             /\ contact'[c].answer = "no" /\ contact'[c].age <= TTL
                   => /\ contact'[c].about \in Numbers
                      /\ noSaid'[contact'[c].about] <= contact'[c].age + CheckTTL
  <2>1. contact[c] \in ContactType /\ contact[c].age \in 0 .. TTL + 1
    BY DEF Types, ContactType
  <2>2. CASE contact[c].answer = "none"
    <3>1. contact'[c] = contact[c]
      BY <2>2 DEF Tick
    <3> QED BY <2>1, <2>2, <3>1
  <2>3. CASE contact[c].answer # "none"
    <3>1. contact'[c] = [contact[c] EXCEPT !.age = Capped(@, TTL + 1)]
      BY <2>3 DEF Tick
    <3>2. Capped(contact[c].age, TTL + 1) \in 0 .. TTL + 1
      BY <2>1, Constants DEF Capped
    <3>3. /\ contact'[c] \in ContactType
          /\ contact'[c].answer = contact[c].answer
          /\ contact'[c].about = contact[c].about
          /\ contact'[c].age = Capped(contact[c].age, TTL + 1)
      BY <2>1, <3>1, <3>2 DEF ContactType
    <3>4. ASSUME contact'[c].answer = "no", contact'[c].age <= TTL
          PROVE  /\ contact'[c].about \in Numbers
                 /\ noSaid'[contact'[c].about] <= contact'[c].age + CheckTTL
      <4>1. contact[c].age <= TTL /\ contact'[c].age = contact[c].age + 1
        BY <2>1, <3>3, <3>4, Constants DEF Capped
      <4>2. contact[c].about \in Numbers /\ noSaid[contact[c].about] <= contact[c].age + CheckTTL
        BY <3>3, <3>4, <4>1 DEF NoInv
      <4>3. /\ noSaid[contact[c].about] \in Nat /\ noSaid'[contact[c].about] \in Nat
            /\ noSaid'[contact[c].about] <= noSaid[contact[c].about] + 1
        BY <1>3, <4>2 DEF Types
      <4> QED BY <2>1, <3>3, <4>1, <4>2, <4>3, Constants
    <3> QED BY <3>3, <3>4
  <2> QED BY <2>2, <2>3
<1>7. contact' \in [Contacts -> ContactType]
  <2>1. contact' = [c \in Contacts |-> contact'[c]]
    BY DEF Tick
  <2> QED BY <1>6, <2>1
<1>8. RunType(run') /\ Idle'
  BY <1>1 DEF Types, Idle
<1> QED BY <1>3, <1>4, <1>5, <1>6, <1>7, <1>8 DEF Types, NoInv

LEMMA InitGood == Init => Good
<1> SUFFICES ASSUME Init PROVE Good
  OBVIOUS
<1>1. noSaid \in [Numbers -> 0 .. Old] /\ cache \in [Numbers -> CacheType \union {NoAnswer}]
  BY Constants DEF Init
<1>2. RunType(run) /\ Idle
  BY DEF Init, RunType, Idle, NoRun
<1>3. contact \in [Contacts -> ContactType] /\ \A c \in Contacts : contact[c].answer = "none"
  <2>1. NumberAtFirst \in [Contacts -> Numbers \union {NoNumber}] /\ 0 \in 0 .. TTL + 1
    BY ChecksAssumption, Constants
  <2> QED BY <2>1 DEF Init, ContactType
<1>4. \A n \in Numbers : ~cache[n].known
  BY DEF Init, NoAnswer
<1> QED BY <1>1, <1>2, <1>3, <1>4 DEF Good, Types, NoInv

LEMMA StepGood == Good /\ [Next]_vars => Good'
<1> SUFFICES ASSUME Good, [Next]_vars PROVE Good'
  OBVIOUS
<1>1. CASE StartChecks
  <2>1. {Question(m) : m \in Wanted} \in SUBSET QuestionType
    <3>1. ASSUME NEW m \in Wanted PROVE Question(m) \in QuestionType
      <4>1. m \in Msgs /\ ContactOf[m] \in Contacts /\ NumberOf(m) # NoNumber
        BY Constants DEF Wanted, Unanswered, Found
      <4>2. NumberOf(m) \in Numbers \union {NoNumber}
        <5>1. contact[ContactOf[m]].number \in Numbers \union {NoNumber}
          BY <4>1 DEF Good, Types, ContactType
        <5> QED BY <4>1, <5>1, ChecksAssumption DEF NumberOf
      <4> QED BY <4>1, <4>2 DEF Question, QuestionType
    <3> QED BY <3>1
  <2>2. RunType(run') /\ (run' # NoRun => run'.got = {})
    BY <1>1, <2>1, OnwardType DEF StartChecks
  <2> QED BY <1>1, <2>2, QuietStep DEF StartChecks, world, gateway
<1>2. CASE Post
  BY <1>2, PostStep
<1>3. CASE Answer
  BY <1>3, AnswerStep
<1>4. CASE Write
  BY <1>4, WriteStep
<1>5. CASE Abort
  BY <1>5, QuietStep DEF Abort, RunType, world, gateway
<1>6. ASSUME NEW m \in Msgs, Send(m) PROVE Good'
  BY <1>6, QuietStep DEF Send, world, gateway
<1>7. ASSUME NEW c \in Contacts, OptOut(c) \/ \E n \in Numbers : ChangeNumber(c, n) PROVE Good'
  BY <1>7, PartnerStep
<1>8. ASSUME NEW n \in Numbers, Registration(n) PROVE Good'
  BY <1>8, QuietStep DEF Registration, gateway
<1>9. ASSUME NEW n \in Numbers, OtherClient(n) PROVE Good'
  BY <1>9, SayStep DEF OtherClient
<1>10. ASSUME NEW s \in Sessions, Connection(s) PROVE Good'
  BY <1>10, QuietStep DEF Connection, gateway
<1>11. CASE Fail
  BY <1>11, FailStep
<1>12. CASE Restart
  BY <1>12, RestartStep
<1>13. CASE Tick
  BY <1>13, TickStep
<1>14. CASE UNCHANGED vars
  BY <1>14, QuietStep DEF vars, world, gateway
<1> QED BY <1>1, <1>2, <1>3, <1>4, <1>5, <1>6, <1>7, <1>8, <1>9, <1>10, <1>11, <1>12, <1>13, <1>14
        DEF Next, Pass, Others

\* Every variable the answers pass through holds what it should: a pass holds
\* questions and answers of numbers, a contact and the cache an answer and its age.
THEOREM TypeCorrect == Spec => []Types
<1>1. Good => Types
  BY DEF Good
<1> QED BY <1>1, InitGood, StepGood, PTL DEF Spec

\* A contact that is taken to be off WhatsApp - and so is not sent to - is one of
\* which WhatsApp itself said so, not longer ago than the gateway keeps an answer
\* and Odoo trusts one, together (_optout_block_reason, checkCache, cron_check_numbers).
THEOREM NosWereSaid == Spec => []NoWasSaid
<1>1. Good => NoWasSaid
  <2> SUFFICES ASSUME Good, NEW c \in Contacts, contact[c].answer = "no", Kept(c)
               PROVE  noSaid[contact[c].about] <= TTL + CheckTTL
    BY DEF NoWasSaid
  <2>1. contact[c].age \in Nat /\ contact[c].age <= TTL
    BY DEF Good, Types, ContactType, Kept
  <2>2. contact[c].about \in Numbers /\ noSaid[contact[c].about] <= contact[c].age + CheckTTL
    BY <2>1 DEF Good, NoInv
  <2>3. noSaid[contact[c].about] \in Nat
    BY <2>2 DEF Good, Types
  <2> QED BY <2>1, <2>2, <2>3, Constants
<1> QED BY <1>1, InitGood, StepGood, PTL DEF Spec
=============================================================================
