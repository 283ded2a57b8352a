--------------------------- MODULE ServiceProofs ---------------------------
(***************************************************************************)
(* How the modules fit together.                                           *)
(*                                                                         *)
(* First, the life cycle of ServerLife is an implementation of             *)
(* CommentThreads: starting, listening, draining and stopping, in whatever *)
(* order they happen, look to the requests like the one action Restart.    *)
(* So all that is proved of CommentThreads holds through every start and   *)
(* shutdown.                                                               *)
(*                                                                         *)
(* Then, Service implements ServerLife, ThreadListing and UserCard, each   *)
(* seen through its own variables: the readers, the reactions and the      *)
(* cards meet in the handlers of CommentThreads no writers but those they  *)
(* were modelled with.                                                     *)
(*                                                                         *)
(* Last, what must happen: accepted requests are answered and drains end,  *)
(* with the fairness of ServerLife spelled out without ENABLED.            *)
(***************************************************************************)
EXTENDS Service, CommentThreadsProofs

USE ForestAssumption, ThreadsAssumption

\* A process that does not listen yet has nothing of the last one.
Fresh == stage \in {"off", "starting"} =>
            outbox = {} /\ req = [r \in Requests |-> Answered(None)]

LifeInv == /\ IndInv
           /\ stage \in {"off", "starting", "open", "draining"}
           /\ killed \in BOOLEAN
           /\ Fresh

LEMMA InitLifeInv == LifeInit => LifeInv
  BY InitIndInv DEF LifeInit, Init, LifeInv, Fresh

\* The setting is one of the deployments', and it stays when a process ends.
LEMMA EndIsRestart == LifeInv /\ (Exit \/ Kill) => Next
<1> SUFFICES ASSUME LifeInv, Exit \/ Kill PROVE Next
  OBVIOUS
<1>1. maxDepth \in MaxDepths
  BY DEF LifeInv, IndInv, TypeOK
<1>2. Restart(maxDepth)
  BY DEF Exit, Kill
<1> QED
  BY <1>1, <1>2 DEF Next

\* Loading the configuration at the start is the other half of a restart.
LEMMA BootIsRestart ==
    ASSUME LifeInv, NEW m \in MaxDepths, Boot(m)
    PROVE  Next
<1>1. outbox = {} /\ req = [r \in Requests |-> Answered(None)]
  BY DEF Boot, LifeInv, Fresh
<1>2. Restart(m)
  BY <1>1 DEF Boot, Restart
<1> QED
  BY <1>2 DEF Next

\* Every step of the life cycle is one of CommentThreads or none.
LEMMA LifeStepRefines == LifeInv /\ [LifeNext]_lifeVars => [Next]_vars
<1> SUFFICES ASSUME LifeInv, [LifeNext]_lifeVars PROVE [Next]_vars
  OBVIOUS
<1>1. CASE \E m \in MaxDepths : Boot(m)
  BY <1>1, BootIsRestart
<1>2. CASE StartFails \/ Listen \/ Signal
  BY <1>2 DEF StartFails, Listen, Signal
<1>3. CASE Exit \/ Kill
  BY <1>3, EndIsRestart
<1>4. CASE Outside
  BY <1>4 DEF Outside, Next
<1>5. CASE \E r \in Requests : Accept(r) \/ Serve(r) \/ ServeUnevenly(r)
  BY <1>5 DEF Accept, Serve, ServeUnevenly, Next
<1>6. CASE UNCHANGED lifeVars
  BY <1>6 DEF lifeVars
<1> QED
  BY <1>1, <1>2, <1>3, <1>4, <1>5, <1>6 DEF LifeNext

\* Roles change at riley-auth whether or not the server runs; that touches
\* the history of requests only.
LEMMA OutsideKeepsFresh == Fresh /\ Outside => Fresh'
<1> SUFFICES ASSUME Fresh, Outside, stage \in {"off", "starting"}
             PROVE  outbox' = {} /\ req' = [r \in Requests |-> Answered(None)]
  BY DEF Fresh, Outside
<1>1. outbox = {} /\ req = [r \in Requests |-> Answered(None)]
  BY DEF Fresh
<1>2. PICK u \in Moderators : ChangeRole(u)
  BY <1>1 DEF Outside
<1>3. \A r \in Requests : req[r].user # u
  BY <1>1 DEF Answered
<1> QED
  BY <1>1, <1>2, <1>3 DEF ChangeRole

LEMMA NextLifeInv == LifeInv /\ [LifeNext]_lifeVars => LifeInv'
<1> SUFFICES ASSUME LifeInv, [LifeNext]_lifeVars PROVE LifeInv'
  OBVIOUS
<1>1. IndInv'
  BY LifeStepRefines, NextIndInv DEF LifeInv
<1>2. CASE \/ \E m \in MaxDepths : Boot(m)
           \/ StartFails \/ Listen \/ Signal
           \/ UNCHANGED lifeVars
  BY <1>1, <1>2
     DEF LifeInv, Fresh, Boot, StartFails, Listen, Signal, lifeVars, vars
<1>3. CASE Exit \/ Kill
  BY <1>1, <1>3 DEF LifeInv, Fresh, Exit, Kill, Restart
<1>4. CASE Outside
  BY <1>1, <1>4, OutsideKeepsFresh DEF LifeInv, Outside
<1>5. CASE \E r \in Requests : Accept(r) \/ Serve(r) \/ ServeUnevenly(r)
  BY <1>1, <1>5 DEF LifeInv, Fresh, Accept, Serve, ServeUnevenly
<1> QED
  BY <1>2, <1>3, <1>4, <1>5 DEF LifeNext

\* The invariant behind the two theorems.
LEMMA LifeInductive == LifeSpec => []LifeInv
<1>1. LifeInit => LifeInv
  BY InitLifeInv
<1>2. LifeInv /\ [LifeNext]_lifeVars => LifeInv'
  BY NextLifeInv
<1> QED
  BY <1>1, <1>2, PTL DEF LifeSpec

(***************************************************************************)
(* Requests are in progress, and notifications being sent, only at a       *)
(* process that listens or drains: `serve` binds the port last, and what a *)
(* process leaves behind ends with it.                                     *)
(***************************************************************************)
THEOREM LifeSound == LifeSpec => []LifeOK
<1>1. ASSUME LifeInv PROVE LifeOK
  BY <1>1 DEF LifeInv, Fresh, LifeOK, IndInv, Idle, Answered
<1> QED
  BY <1>1, LifeInductive, PTL

(***************************************************************************)
(* The process with its starts, drains, exits and kills implements         *)
(* CommentThreads, where all of them are one step.                         *)
(***************************************************************************)
THEOREM LifeImplements == LifeSpec => Spec
<1>1. LifeInit => Init
  BY DEF LifeInit
<1>2. LifeInv /\ [LifeNext]_lifeVars => [Next]_vars
  BY LifeStepRefines
<1> QED
  BY <1>1, <1>2, LifeInductive, PTL DEF LifeSpec, Spec

-----------------------------------------------------------------------------
(***************************************************************************)
(* The service is the process of ServerLife: pages, reactions and cards    *)
(* neither start it nor stop it, and touch no request that writes          *)
(* comments.                                                               *)
(***************************************************************************)
LEMMA ServiceStepLives == [ServiceNext]_serviceVars => [LifeNext]_lifeVars
<1> SUFFICES ASSUME [ServiceNext]_serviceVars PROVE [LifeNext]_lifeVars
  OBVIOUS
<1>1. CASE Write
  BY <1>1 DEF Write, LifeNext
<1>2. CASE Read \/ React \/ Draw
  BY <1>2 DEF Read, React, Draw
<1>3. CASE Close \/ Crash
  BY <1>3 DEF Close, Crash, LifeNext
<1>4. CASE UNCHANGED serviceVars
  BY <1>4 DEF serviceVars
<1> QED
  BY <1>1, <1>2, <1>3, <1>4 DEF ServiceNext

\* The service implements the life of a process in ServerLife, and so the
\* handlers of CommentThreads.
THEOREM ServiceLives == ServiceSpec => LifeSpec
<1>1. ServiceInit => LifeInit
  BY DEF ServiceInit
<1> QED
  BY <1>1, ServiceStepLives, PTL DEF ServiceSpec, LifeSpec

\* What the handlers do to the table is what its contract allows.
LEMMA ServiceStepForest ==
    LifeInv /\ [ServiceNext]_serviceVars => [ForestNext]_rows
  BY ServiceStepLives, LifeStepRefines, StepRefines DEF LifeInv

\* The readers' modules have the contract under names of their own.
LEMMA SameForest ==
    ForestNext => Reader!ForestNext /\ Profile!ForestNext
  BY DEF ForestNext, Post, Edit, Remove, Posted, Ids,
         Reader!ForestNext, Reader!Post, Reader!Edit, Reader!Remove,
         Reader!Posted, Reader!Ids,
         Profile!ForestNext, Profile!Post, Profile!Edit, Profile!Remove,
         Profile!Posted, Profile!Ids

\* The end of a process leaves the table as it is.
LEMMA EndKeepsTable == Exit \/ Kill => rows' = rows
  BY DEF Exit, Kill, Restart

\* To the reader every step is one of the writers', one of the reader's, or
\* the loss of an answer.
LEMMA ReaderStep ==
    LifeInv /\ [ServiceNext]_serviceVars => [Reader!Next]_(Reader!vars)
<1> SUFFICES ASSUME LifeInv, [ServiceNext]_serviceVars
             PROVE  Reader!Next \/ UNCHANGED <<rows, readerVars>>
  BY DEF Reader!vars, Reader!reader, readerVars
<1>1. CASE Write
  <2>1. CASE rows' = rows
    BY <1>1, <2>1 DEF Write
  <2>2. CASE rows' # rows
    <3>1. Reader!ForestNext
      BY <2>2, ServiceStepForest, SameForest
    <3>2. Reader!Overtaken
      BY <1>1, <2>2 DEF Write
    <3> QED
      BY <3>1, <3>2 DEF Reader!Comments, Reader!Next
  <2> QED
    BY <2>1, <2>2
<1>2. CASE Read
  BY <1>2 DEF Read, Reader!Walk, Reader!Next
<1>3. CASE React \/ Draw
  BY <1>3 DEF React, Draw, lifeVars, vars
<1>4. CASE Close
  BY <1>4, EndKeepsTable DEF Close
<1>5. CASE Crash
  BY <1>5, EndKeepsTable DEF Crash, Reader!Walk, Reader!Next
<1>6. CASE UNCHANGED serviceVars
  BY <1>6 DEF serviceVars, lifeVars, vars
<1> QED
  BY <1>1, <1>2, <1>3, <1>4, <1>5, <1>6 DEF ServiceNext

(***************************************************************************)
(* The reader of ThreadListing reads from the table these handlers write:  *)
(* seen through the reader's variables the service is ThreadListing, so    *)
(* the pages keep what is proved there, through starts and shutdowns.      *)
(***************************************************************************)
THEOREM ServiceLists == ServiceSpec => Reader!Spec
<1>1. ServiceInit => Reader!Init
  BY DEF ServiceInit
<1>2. LifeInv /\ [ServiceNext]_serviceVars => [Reader!Next]_(Reader!vars)
  BY ReaderStep
<1>3. ServiceSpec => []LifeInv
  BY ServiceLives, LifeInductive, PTL
<1> QED
  BY <1>1, <1>2, <1>3, PTL DEF ServiceSpec, Reader!Spec

\* To the requests to react and the card likewise.
LEMMA ProfileStep ==
    LifeInv /\ [ServiceNext]_serviceVars =>
       [Profile!CardNext]_(Profile!cardVars)
<1> SUFFICES ASSUME LifeInv, [ServiceNext]_serviceVars
             PROVE  Profile!CardNext
                       \/ UNCHANGED <<rows, reactVars, profileVars>>
  BY DEF Profile!cardVars, Profile!vars, reactVars, profileVars
<1>1. CASE Write
  <2>1. CASE rows' = rows
    BY <1>1, <2>1 DEF Write
  <2>2. CASE rows' # rows
    <3>1. Profile!ForestNext
      BY <2>2, ServiceStepForest, SameForest
    <3>2. UNCHANGED <<reactVars, profileVars>>
      BY <1>1, <2>2 DEF Write
    <3>3. Profile!Work
      BY <3>1, <3>2 DEF reactVars, Profile!Comments, Profile!Work
    <3> QED
      BY <3>2, <3>3 DEF profileVars, Profile!Meanwhile, Profile!CardNext
  <2> QED
    BY <2>1, <2>2
<1>2. CASE Read
  BY <1>2 DEF Read, lifeVars, vars
<1>3. CASE React
  <2>1. Profile!Work
    BY <1>3 DEF React, Profile!Work
  <2>2. UNCHANGED <<card, known>>
    BY <1>3 DEF React, profileVars
  <2> QED
    BY <2>1, <2>2 DEF Profile!Meanwhile, Profile!CardNext
<1>4. CASE Draw
  BY <1>4 DEF Draw, Profile!CardWork, Profile!CardNext
<1>5. CASE Close
  BY <1>5, EndKeepsTable DEF Close
<1>6. CASE Crash
  BY <1>6 DEF Crash, Profile!CardNext
<1>7. CASE UNCHANGED serviceVars
  BY <1>7 DEF serviceVars, lifeVars, vars
<1> QED
  BY <1>1, <1>2, <1>3, <1>4, <1>5, <1>6, <1>7 DEF ServiceNext

(***************************************************************************)
(* Reactions are added and cards are drawn beside these handlers as beside *)
(* the writers of Reactions and UserCard: what is proved there of          *)
(* notifications and of the two numbers on a card holds in the service.    *)
(***************************************************************************)
THEOREM ServiceCounts == ServiceSpec => Profile!CardSpec
<1>1. ServiceInit => Profile!CardInit
  BY DEF ServiceInit
<1>2. LifeInv /\ [ServiceNext]_serviceVars =>
         [Profile!CardNext]_(Profile!cardVars)
  BY ProfileStep
<1>3. ServiceSpec => []LifeInv
  BY ServiceLives, LifeInductive, PTL
<1> QED
  BY <1>1, <1>2, <1>3, PTL DEF ServiceSpec, Profile!CardSpec

-----------------------------------------------------------------------------
\* The readers' share of NothingLeft.  That of the handlers is Fresh.
NobodyWaits == ~Up => ~Reading /\ ~Reacting /\ ~Drawing

LEMMA InitNobodyWaits == ServiceInit => NobodyWaits
<1> SUFFICES ASSUME ServiceInit PROVE ~Reading /\ ~Reacting /\ ~Drawing
  BY DEF NobodyWaits
<1>1. ~Reading
  BY DEF ServiceInit, Reader!Init, Reading
<1>2. ~Reacting
  BY DEF ServiceInit, Profile!CardInit, Profile!Init, Profile!Idle, Reacting
<1>3. ~Drawing
  BY DEF ServiceInit, Profile!CardInit, Profile!NoCard, Drawing
<1> QED
  BY <1>1, <1>2, <1>3

\* While the process does not serve, it writes no comment either.
LEMMA WriteKeepsNobody == NobodyWaits /\ Write => NobodyWaits'
<1> SUFFICES ASSUME NobodyWaits, Write, ~Up'
             PROVE  ~Reading' /\ ~Reacting' /\ ~Drawing'
  BY DEF NobodyWaits
<1>1. \/ \E m \in MaxDepths : Boot(m)
      \/ StartFails \/ Outside
  BY DEF Write, Up, Listen, Signal, Accept, Serve, ServeUnevenly
<1>2. ~Up
  BY <1>1 DEF Up, Boot, StartFails, Outside
<1>3. rows' = rows
  BY <1>1 DEF Boot, StartFails, Outside, NotificationEnds, ChangeRole, vars
<1>4. UNCHANGED <<readerVars, reactVars, profileVars>>
  BY <1>3 DEF Write
<1> QED
  BY <1>2, <1>4
     DEF NobodyWaits, readerVars, reactVars, profileVars, Reading, Reacting,
         Drawing

\* A process that ends takes its requests with it.
LEMMA CrashEmpties == Crash => ~Reading' /\ ~Reacting' /\ ~Drawing'
<1> SUFFICES ASSUME Crash PROVE ~Reading' /\ ~Reacting' /\ ~Drawing'
  OBVIOUS
<1>1. ~Reading'
  BY DEF Crash, Reading, Reader!Fail, readerVars
<1>2. reacting' = [r \in ReactSlots |-> Profile!Idle]
  BY DEF Crash, Profile!CardRestart, Profile!Restart
<1>3. ~Reacting'
  BY <1>2 DEF Reacting, Profile!Idle
<1>4. ~Drawing'
  BY DEF Crash, Profile!CardRestart, Profile!NoCard, Drawing
<1> QED
  BY <1>1, <1>3, <1>4

LEMMA NextNobodyWaits ==
    NobodyWaits /\ [ServiceNext]_serviceVars => NobodyWaits'
<1> SUFFICES ASSUME NobodyWaits, [ServiceNext]_serviceVars PROVE NobodyWaits'
  OBVIOUS
<1>1. CASE Write
  BY <1>1, WriteKeepsNobody
<1>2. CASE Read
  <2>1. UNCHANGED <<stage, reactVars, profileVars>>
    BY <1>2 DEF Read, lifeVars
  <2>2. CASE Up
    BY <2>1, <2>2 DEF NobodyWaits, Up
  <2>3. CASE ~Up
    <3>1. Reader!Restart
      BY <1>2, <2>3 DEF Read, Up
    <3> QED
      BY <2>1, <2>3, <3>1
         DEF NobodyWaits, Up, Reading, Reacting, Drawing, reactVars,
             profileVars, Reader!Restart
  <2> QED
    BY <2>2, <2>3
<1>3. CASE React
  <2>1. UNCHANGED stage /\ Up
    BY <1>3 DEF React, lifeVars, Up
  <2> QED
    BY <2>1 DEF NobodyWaits, Up
<1>4. CASE Draw
  <2>1. UNCHANGED stage /\ Up
    BY <1>4 DEF Draw, lifeVars, Up
  <2> QED
    BY <2>1 DEF NobodyWaits, Up
<1>5. CASE Close
  BY <1>5
     DEF NobodyWaits, Close, readerVars, reactVars, profileVars, Reading,
         Reacting, Drawing
<1>6. CASE Crash
  BY <1>6, CrashEmpties DEF NobodyWaits
<1>7. CASE UNCHANGED serviceVars
  BY <1>7
     DEF NobodyWaits, serviceVars, lifeVars, Up, readerVars, reactVars,
         profileVars, Reading, Reacting, Drawing
<1> QED
  BY <1>1, <1>2, <1>3, <1>4, <1>5, <1>6, <1>7 DEF ServiceNext

(***************************************************************************)
(* A graceful shutdown is graceful to everyone: `serve` returns only when  *)
(* no request of any kind is in progress, and nothing is in progress at a  *)
(* process that is only starting.                                          *)
(***************************************************************************)
THEOREM ShutdownLosesNobody == ServiceSpec => []NothingLeft
<1>1. LifeInv /\ NobodyWaits => NothingLeft
  <2> SUFFICES ASSUME LifeInv, NobodyWaits, ~Up
               PROVE  outbox = {} /\ \A r \in Requests : Idle(r)
    BY DEF NothingLeft, NobodyWaits
  <2>1. stage \in {"off", "starting"}
    BY DEF LifeInv, Up
  <2> QED
    BY <2>1 DEF LifeInv, Fresh, Idle, Answered
<1>2. NobodyWaits /\ [ServiceNext]_serviceVars => NobodyWaits'
  BY NextNobodyWaits
<1>3. ServiceSpec => []NobodyWaits
  BY <1>2, InitNobodyWaits, PTL DEF ServiceSpec
<1>4. ServiceSpec => []LifeInv
  BY ServiceLives, LifeInductive, PTL
<1> QED
  BY <1>1, <1>3, <1>4, PTL

-----------------------------------------------------------------------------
(***************************************************************************)
(* What is proved of the readers, told of the service.  The theorems come  *)
(* with the modules that prove them, in which every definition has one     *)
(* more name: these lemmas say that it is the same.                        *)
(***************************************************************************)
R == INSTANCE ThreadListingProofs
P == INSTANCE ReactionsProofs WITH Requests <- ReactSlots, req <- reacting

LEMMA SameCardinality ==
    \A S : /\ Reader!Cardinality(S) = R!Cardinality(S)
           /\ Profile!Cardinality(S) = P!Cardinality(S)
  BY DEF Reader!Cardinality, R!Cardinality, Profile!Cardinality,
         P!Cardinality

LEMMA SameAskRoots == \A limit : Reader!AskRoots(limit) => R!AskRoots(limit)
<1>1. Reader!Roots = R!Roots
  BY DEF Reader!Roots, Reader!RootVisible, Reader!AfterCursor, Reader!Live,
         Reader!Below, Reader!HoldsReplies, Reader!Children, Reader!Posted,
         R!Roots, R!RootVisible, R!AfterCursor, R!Live,
         R!Below, R!HoldsReplies, R!Children, R!Posted
<1>2. \A n, S : Reader!First(n, S) = R!First(n, S)
  BY SameCardinality DEF Reader!First, R!First
<1>3. \A limit : Reader!effective_limit(limit) = R!effective_limit(limit)
  BY DEF Reader!effective_limit, R!effective_limit
<1> QED
  BY <1>1, <1>2, <1>3, SameCardinality
     DEF Reader!AskRoots, Reader!Live, Reader!Posted,
         R!AskRoots, R!Live, R!Posted

LEMMA SameFetches ==
    /\ Reader!FetchReplies => R!FetchReplies
    /\ Reader!FetchCounts => R!FetchCounts
<1>1. Reader!FetchReplies => R!FetchReplies
  BY DEF Reader!FetchReplies, Reader!Gathered, Reader!Replies, Reader!Below,
         Reader!HoldsReplies, Reader!Children, Reader!Posted,
         Reader!VisibleIds, Reader!HoldsAncestors, Reader!Shown,
         R!FetchReplies, R!Gathered, R!Replies, R!Below,
         R!HoldsReplies, R!Children, R!Posted,
         R!VisibleIds, R!HoldsAncestors, R!Shown
<1>2. \A k : Reader!LiveReplies(k) = R!LiveReplies(k)
  BY SameCardinality
     DEF Reader!LiveReplies, Reader!Children, Reader!Live, Reader!Posted,
         R!LiveReplies, R!Children, R!Live, R!Posted
<1>3. Reader!FetchCounts => R!FetchCounts
  BY <1>2 DEF Reader!FetchCounts, R!FetchCounts
<1> QED
  BY <1>1, <1>3

LEMMA SameWalk == Reader!Walk => R!Walk
<1>1. /\ Reader!Respond => R!Respond
      /\ Reader!Fail => R!Fail
      /\ Reader!Restart => R!Restart
  BY DEF Reader!Respond, Reader!NextCursor, Reader!Fail, Reader!Restart,
         Reader!Empty, R!Respond, R!NextCursor, R!Fail, R!Restart, R!Empty
<1> QED
  BY <1>1, SameAskRoots, SameFetches DEF Reader!Walk, R!Walk

LEMMA SameComments == Reader!Comments => R!Comments
<1>1. Reader!ForestNext => R!ForestNext
  BY DEF Reader!ForestNext, Reader!Post, Reader!Edit, Reader!Remove,
         Reader!Posted, Reader!Ids,
         R!ForestNext, R!Post, R!Edit, R!Remove, R!Posted, R!Ids
<1>2. Reader!Overtaken => R!Overtaken
  BY DEF Reader!Overtaken, Reader!Posted, Reader!Ahead, Reader!AfterCursor,
         Reader!NextCursor, Reader!Thread, Reader!Below,
         Reader!HoldsReplies, Reader!Children,
         R!Overtaken, R!Posted, R!Ahead, R!AfterCursor,
         R!NextCursor, R!Thread, R!Below, R!HoldsReplies, R!Children
<1> QED
  BY <1>1, <1>2 DEF Reader!Comments, R!Comments

LEMMA SameReader == Reader!Spec => R!Spec
<1>1. Reader!Init => R!Init
  BY DEF Reader!Init, Reader!ForestInit, Reader!Empty,
         R!Init, R!ForestInit, R!Empty
<1>2. [Reader!Next]_(Reader!vars) => [R!Next]_(R!vars)
  BY SameWalk, SameComments
     DEF Reader!Next, Reader!vars, Reader!reader, R!Next, R!vars, R!reader
<1> QED
  BY <1>1, <1>2, PTL DEF Reader!Spec, R!Spec

(***************************************************************************)
(* Whatever requests write comments, however processes start, drain and    *)
(* die: a walk through the pages misses no comment that was there          *)
(* throughout and repeats none, its pages hang together, are exact if      *)
(* nobody wrote meanwhile, and have no body of a comment deleted before    *)
(* they were asked for.                                                    *)
(***************************************************************************)
THEOREM ServicePages ==
    ASSUME Entity \in Entities, Limits \subseteq Int \cup {None}
    PROVE  ServiceSpec => []( /\ Reader!LiveNeverMissed
                              /\ Reader!NoRepeats
                              /\ Reader!PageHangsTogether
                              /\ Reader!DeletedStayHidden
                              /\ Reader!QuietPageExact )
<1>1. R!ForestAssumption /\ R!ListingAssumption
  BY DEF ForestAssumption, R!ForestAssumption, R!ListingAssumption
<1>2. R!Spec => []R!LiveNeverMissed
  BY <1>1, R!NothingMissed
<1>3. R!Spec => []R!NoRepeats
  BY <1>1, R!NothingTwice
<1>4. R!Spec => []R!PageHangsTogether
  BY <1>1, R!PagesHangTogether
<1>5. R!Spec => []R!DeletedStayHidden
  BY <1>1, R!DeletedHidden
<1>6. R!Spec => []R!QuietPageExact
  BY <1>1, R!QuietExact
<1>7. /\ R!LiveNeverMissed => Reader!LiveNeverMissed
      /\ R!NoRepeats => Reader!NoRepeats
      /\ R!DeletedStayHidden => Reader!DeletedStayHidden
  BY DEF R!LiveNeverMissed, R!NoRepeats, R!DeletedStayHidden,
         Reader!LiveNeverMissed, Reader!NoRepeats, Reader!DeletedStayHidden
<1>8. R!PageHangsTogether => Reader!PageHangsTogether
  BY DEF R!PageHangsTogether, R!Children, R!Posted,
         Reader!PageHangsTogether, Reader!Children, Reader!Posted
<1>9. R!QuietPageExact => Reader!QuietPageExact
  BY SameCardinality
     DEF R!QuietPageExact, R!Replies, R!RootVisible, R!Live, R!Below,
         R!HoldsReplies, R!Children, R!Posted,
         Reader!QuietPageExact, Reader!Replies, Reader!RootVisible,
         Reader!Live, Reader!Below, Reader!HoldsReplies, Reader!Children,
         Reader!Posted
<1> QED
  BY <1>2, <1>3, <1>4, <1>5, <1>6, <1>7, <1>8, <1>9, ServiceLists,
     SameReader, PTL

\* The same for the requests to react and the card.
LEMMA SameReactions == Profile!Work => P!Work
<1>1. Profile!Comments => P!Comments
  BY DEF Profile!Comments, Profile!ForestNext, Profile!Post, Profile!Edit,
         Profile!Remove, Profile!Posted, Profile!Ids,
         P!Comments, P!ForestNext, P!Post, P!Edit,
         P!Remove, P!Posted, P!Ids
<1>2. \A r, x : Profile!AddReaction(r, x) => P!AddReaction(r, x)
  BY DEF Profile!AddReaction, Profile!Live, Profile!Posted,
         P!AddReaction, P!Live, P!Posted
<1>3. \A r : Profile!AddCheck(r) => P!AddCheck(r)
  BY DEF Profile!AddCheck, Profile!Reactable, Profile!Live, Profile!Posted,
         Profile!Idle, P!AddCheck, P!Reactable, P!Live, P!Posted, P!Idle
<1>4. \A r, b : Profile!AddInsert(r, b) => P!AddInsert(r, b)
  <2>1. Profile!Reaction = P!Reaction
    BY DEF Profile!Reaction, Profile!Ids, P!Reaction, P!Ids
  <2>2. \A x : Profile!Room(x) => P!Room(x)
    BY <2>1, SameCardinality DEF Profile!Room, P!Room
  <2> QED
    BY <2>2 DEF Profile!AddInsert, Profile!Inserted, Profile!Posted,
       Profile!Idle, P!AddInsert, P!Inserted, P!Posted, P!Idle
<1>5. /\ \A r : Profile!AddNotify(r) => P!AddNotify(r)
      /\ \A r : Profile!Abandon(r) => P!Abandon(r)
      /\ \A x : Profile!RemoveReaction(x) => P!RemoveReaction(x)
  BY DEF Profile!AddNotify, Profile!ForeignTo, Profile!Idle, Profile!Abandon,
         Profile!RemoveReaction, P!AddNotify, P!ForeignTo, P!Idle, P!Abandon,
         P!RemoveReaction
<1>6. Profile!Reaction = P!Reaction
  BY DEF Profile!Reaction, Profile!Ids, P!Reaction, P!Ids
<1> QED
  BY <1>1, <1>2, <1>3, <1>4, <1>5, <1>6 DEF Profile!Work, P!Work

LEMMA SameCard == Profile!CardWork => P!CardWork
<1>1. \A u : Profile!AskCard(u) => P!AskCard(u)
  BY DEF Profile!AskCard, Profile!NoCard, Profile!Own, Profile!Live,
         Profile!Posted, Profile!vars, P!AskCard, P!NoCard, P!Own, P!Live,
         P!Posted, P!vars
<1>2. Profile!CountReceived => P!CountReceived
  BY DEF Profile!CountReceived, Profile!Received, Profile!Own, Profile!Live,
         Profile!Posted, Profile!vars, P!CountReceived, P!Received, P!Own,
         P!Live, P!Posted, P!vars
<1>3. Profile!CardFails => P!CardFails
  BY DEF Profile!CardFails, Profile!NoCard, Profile!vars,
         P!CardFails, P!NoCard, P!vars
<1> QED
  BY <1>1, <1>2, <1>3 DEF Profile!CardWork, P!CardWork

LEMMA SameProfile == Profile!CardSpec => P!CardSpec
<1>1. Profile!CardInit => P!CardInit
  BY DEF Profile!CardInit, Profile!Init, Profile!ForestInit, Profile!Idle,
         Profile!Reaction, Profile!Ids, Profile!NoCard,
         P!CardInit, P!Init, P!ForestInit, P!Idle,
         P!Reaction, P!Ids, P!NoCard
<1>2. Profile!CardRestart => P!CardRestart
  BY DEF Profile!CardRestart, Profile!Restart, Profile!Idle, Profile!NoCard,
         P!CardRestart, P!Restart, P!Idle, P!NoCard
<1>3. [Profile!CardNext]_(Profile!cardVars) => [P!CardNext]_(P!cardVars)
  BY <1>2, SameReactions, SameCard
     DEF Profile!CardNext, Profile!Meanwhile, Profile!cardVars, Profile!vars,
         P!CardNext, P!Meanwhile, P!cardVars, P!vars
<1> QED
  BY <1>1, <1>3, PTL DEF Profile!CardSpec, P!CardSpec

(***************************************************************************)
(* In the service, too, an author hears of each new reaction at most once  *)
(* and never of their own, a request to react that comes after the comment *)
(* was deleted records nothing, and a card counts no reaction to a comment *)
(* that was there when the card was asked for and is not counted on it.    *)
(***************************************************************************)
THEOREM ServiceReactions ==
    ASSUME None \notin Emojis, MaxReactions \in Nat, MaxBirths \in Nat,
           IsFiniteSet(ReactSlots)
    PROVE  ServiceSpec => /\ []( /\ Profile!NotifiedOncePerReaction
                                 /\ Profile!CardHangsTogether )
                          /\ Profile!LateReactsNothing
<1>1. P!IsFiniteSet(ReactSlots)
  BY DEF IsFiniteSet, P!IsFiniteSet
<1>2. P!ForestAssumption /\ P!ReactionsAssumption
  BY <1>1 DEF ForestAssumption, P!ForestAssumption, P!ReactionsAssumption
<1>3. P!CardSpec => P!Spec
  BY <1>2, P!CardImplements
<1>4. P!Spec => []P!NotifiedOncePerReaction
  BY <1>2, P!ToldOnce
<1>5. P!Spec => P!LateReactsNothing
  BY <1>2, P!TooLateReactsNothing
<1>6. P!CardSpec => []P!CardHangsTogether
  BY <1>2, P!CardCoherent
<1>7. P!NotifiedOncePerReaction => Profile!NotifiedOncePerReaction
  BY SameCardinality
     DEF P!NotifiedOncePerReaction, P!Telling, P!Reaction, P!Ids, P!Posted,
         Profile!NotifiedOncePerReaction, Profile!Telling, Profile!Reaction,
         Profile!Ids, Profile!Posted
<1>8. P!CardHangsTogether => Profile!CardHangsTogether
  BY DEF P!CardHangsTogether, Profile!CardHangsTogether
<1>9. P!LateReactsNothing => Profile!LateReactsNothing
  BY PTL DEF P!LateReactsNothing, P!vars, Profile!LateReactsNothing,
     Profile!vars
<1> QED
  BY <1>3, <1>4, <1>5, <1>6, <1>7, <1>8, <1>9, ServiceCounts, SameProfile, PTL

-----------------------------------------------------------------------------
(***************************************************************************)
(* AcceptedAreAnswered.  The provers know nothing of ENABLED, so the       *)
(* fairness of FairLife is spelled out here: Serve(r) is possible exactly  *)
(* while r is in progress, and weak fairness says that r is idle again and *)
(* again or served again and again.                                        *)
(***************************************************************************)
Served(r) == []<>Idle(r) \/ []<><<Serve(r)>>_lifeVars

\* How many statements a request has before it at most.
StepsLeft(pc) == CASE pc \in {"parent", "role"}          -> 3
                   [] pc \in {"stamp", "recheck"}        -> 2
                   [] pc \in {"insert", "edit", "tombstone"} -> 1
                   [] OTHER -> 0

AtMost(r, n) == ~Idle(r) /\ StepsLeft(req[r].pc) <= n

\* The request has its answer, or the process was killed.
Over(r) == \/ Idle(r) /\ req[r].status # None
           \/ killed

\* A step of the request itself brings it nearer to its answer.
LEMMA ServeGetsOn ==
    ASSUME LifeInv, NEW r \in Requests,
           Progress(r) \/ RoleAnswer(r) \/ QueryFails(r)
    PROVE  \/ Idle(r)' /\ req'[r].status # None
           \/ ~Idle(r)' /\ StepsLeft(req'[r].pc) < StepsLeft(req[r].pc)
<1>1. req \in [Requests -> Request]
  BY DEF LifeInv, IndInv, TypeOK
<1>2. ASSUME NEW s \in Statuses, Answer(r, s)
      PROVE  Idle(r)' /\ req'[r].status # None
  BY <1>1, <1>2, StatusAssumption DEF Answer, Answered, Idle
<1>3. ASSUME NEW pc \in {"stamp", "recheck", "insert", "tombstone"},
             req'[r].pc = pc, StepsLeft(pc) < StepsLeft(req[r].pc)
      PROVE  ~Idle(r)' /\ StepsLeft(req'[r].pc) < StepsLeft(req[r].pc)
  BY <1>3 DEF Idle
<1>4. CASE CreateParent(r)
  <2> DEFINE place == Place(req[r].target)
  <2>1. /\ req[r].pc = "parent"
        /\ \/ req' = [req EXCEPT ![r].pc = "stamp",
                                 ![r].parent = place.parent,
                                 ![r].depth = place.depth,
                                 ![r].replyTo = place.replyTo]
           \/ Answer(r, "refused")
    BY <1>4 DEF CreateParent
  <2> HIDE DEF place
  <2>2. req'[r].pc = "stamp" \/ Answer(r, "refused")
    BY <1>1, <2>1 DEF Request
  <2> QED
    BY <1>2, <1>3, <2>1, <2>2 DEF StepsLeft, Statuses
<1>5. CASE CreateStamp(r)
  <2>1. req[r].pc = "stamp" /\ req'[r].pc = "insert"
    BY <1>1, <1>5 DEF CreateStamp
  <2> QED
    BY <1>3, <2>1 DEF StepsLeft
<1>6. CASE RoleAnswer(r)
  <2>1. /\ req[r].pc = "role"
        /\ \/ req' = [req EXCEPT ![r].pc = "recheck", ![r].confirmed = TRUE]
           \/ Answer(r, "refused")
    BY <1>6 DEF RoleAnswer
  <2>2. req'[r].pc = "recheck" \/ Answer(r, "refused")
    BY <1>1, <2>1 DEF Request
  <2> QED
    BY <1>2, <1>3, <2>1, <2>2 DEF StepsLeft, Statuses
<1>7. CASE DeleteRecheck(r)
  <2>1. /\ req[r].pc = "recheck"
        /\ \/ Goto(r, "tombstone")
           \/ Answer(r, "refused") \/ Answer(r, "204")
    BY <1>7 DEF DeleteRecheck
  <2>2. Goto(r, "tombstone") => req'[r].pc = "tombstone"
    BY <1>1 DEF Goto
  <2> QED
    BY <1>2, <1>3, <2>1, <2>2 DEF StepsLeft, Statuses
<1>8. CASE RoleUnavailable(r) \/ QueryFails(r)
  BY <1>2, <1>8 DEF RoleUnavailable, QueryFails, Statuses
<1>9. ASSUME NEW answered \in BOOLEAN,
             CreateInsert(r, answered) \/ EditWrite(r, answered)
                \/ DeleteWrite(r, answered)
      PROVE  Idle(r)' /\ req'[r].status # None
  BY <1>2, <1>9 DEF CreateInsert, EditWrite, DeleteWrite, Statuses
<1> QED
  BY <1>4, <1>5, <1>6, <1>7, <1>8, <1>9 DEF Progress

\* Everybody else leaves it where it is.
LEMMA NeverBack ==
    ASSUME LifeInv, [LifeNext]_lifeVars, NEW r \in Requests, NEW n \in 1 .. 3,
           AtMost(r, n)
    PROVE  AtMost(r, n)' \/ Over(r)'
<1>1. req \in [Requests -> Request]
  BY DEF LifeInv, IndInv, TypeOK
<1>2. req'[r].pc = req[r].pc => AtMost(r, n)'
  BY DEF AtMost, Idle
<1>3. CASE \E m \in MaxDepths : Boot(m)
  BY <1>2, <1>3 DEF Boot
<1>4. CASE StartFails \/ Listen \/ Signal \/ UNCHANGED lifeVars
  BY <1>2, <1>4 DEF StartFails, Listen, Signal, lifeVars, vars
<1>5. CASE Exit
  BY <1>5 DEF Exit, AtMost
<1>6. CASE Kill
  BY <1>6 DEF Kill, Over
<1>7. CASE Outside
  <2>1. CASE \E note \in outbox : NotificationEnds(note)
    BY <1>2, <2>1 DEF NotificationEnds
  <2>2. ASSUME NEW u \in Moderators, ChangeRole(u)
        PROVE  req'[r].pc = req[r].pc
    BY <1>1, <2>2 DEF ChangeRole, Request
  <2> QED
    BY <1>2, <1>7, <2>1, <2>2 DEF Outside
<1>8. ASSUME NEW s \in Requests, Accept(s) \/ Serve(s) \/ ServeUnevenly(s)
      PROVE  AtMost(r, n)' \/ Over(r)'
  <2>1. CASE s # r
    <3>1. req'[r] = req[r]
      BY <1>8, <2>1, OneSlot
         DEF Accept, Serve, ServeUnevenly, LifeInv, OthersStay
    <3> QED
      BY <1>2, <3>1
  <2>2. CASE s = r
    <3>1. ~Accept(r)
      BY DEF Accept, Arrival, CreateComment, UpdateComment, DeleteComment,
             AtMost, Idle
    <3>2. Progress(r) \/ RoleAnswer(r) \/ QueryFails(r)
      BY <1>8, <2>2, <3>1 DEF Serve, ServeUnevenly
    <3>3. CASE Idle(r)' /\ req'[r].status # None
      BY <3>3 DEF Over, Idle
    <3>4. CASE ~Idle(r)' /\ StepsLeft(req'[r].pc) < StepsLeft(req[r].pc)
      BY <3>4 DEF AtMost, StepsLeft
    <3> QED
      BY <3>2, <3>3, <3>4, ServeGetsOn
  <2> QED
    BY <2>1, <2>2
<1> QED
  BY <1>3, <1>4, <1>5, <1>6, <1>7, <1>8 DEF LifeNext

LEMMA ServeNearer ==
    ASSUME LifeInv, NEW r \in Requests, NEW n \in 1 .. 3, AtMost(r, n),
           Serve(r)
    PROVE  (n > 1 /\ AtMost(r, n - 1)') \/ Over(r)'
<1>1. CASE Idle(r)' /\ req'[r].status # None
  BY <1>1 DEF Over, Idle
<1>2. CASE ~Idle(r)' /\ StepsLeft(req'[r].pc) < StepsLeft(req[r].pc)
  <2>1. LifeNext
    BY DEF LifeNext
  <2>2. req' \in [Requests -> Request]
    BY <2>1, NextLifeInv DEF LifeInv, IndInv, TypeOK
  <2>3. req'[r].pc \in Steps
    BY <2>2 DEF Request
  <2> QED
    BY <1>2, <2>3 DEF AtMost, StepsLeft, Idle, Steps
<1> QED
  BY <1>1, <1>2, ServeGetsOn DEF Serve

LEMMA AnsweredIfServed ==
    ASSUME NEW r \in Requests
    PROVE  LifeSpec /\ Served(r) => (~Idle(r) ~> Over(r))
<1>1. LifeInv => (~Idle(r) <=> AtMost(r, 3))
  BY DEF AtMost, StepsLeft, Idle
<1>2. \A n \in 1 .. 3 : AtMost(r, n) => ~Idle(r)
  BY DEF AtMost
<1>3. /\ LifeInv /\ [LifeNext]_lifeVars /\ AtMost(r, 3)
            => AtMost(r, 3)' \/ Over(r)'
      /\ LifeInv /\ [LifeNext]_lifeVars /\ AtMost(r, 2)
            => AtMost(r, 2)' \/ Over(r)'
      /\ LifeInv /\ [LifeNext]_lifeVars /\ AtMost(r, 1)
            => AtMost(r, 1)' \/ Over(r)'
  BY NeverBack
<1>4. /\ LifeInv /\ <<Serve(r)>>_lifeVars /\ AtMost(r, 3)
            => AtMost(r, 2)' \/ Over(r)'
      /\ LifeInv /\ <<Serve(r)>>_lifeVars /\ AtMost(r, 2)
            => AtMost(r, 1)' \/ Over(r)'
      /\ LifeInv /\ <<Serve(r)>>_lifeVars /\ AtMost(r, 1) => Over(r)'
  BY ServeNearer
<1>5. /\ AtMost(r, 3) => ~Idle(r)
      /\ AtMost(r, 2) => ~Idle(r)
      /\ AtMost(r, 1) => ~Idle(r)
  BY <1>2
<1> QED
  BY <1>1, <1>3, <1>4, <1>5, LifeInductive, PTL DEF LifeSpec, Served

(***************************************************************************)
(* Every request that was accepted is answered, or the process was killed, *)
(* if requests in progress are served again and again.  RoleAnswer is not  *)
(* among what must happen: riley-auth need not answer.                     *)
(***************************************************************************)
THEOREM EveryoneIsAnswered ==
    LifeSpec /\ (\A r \in Requests : Served(r)) => AcceptedAreAnswered
<1>1. ASSUME NEW r \in Requests
      PROVE  LifeSpec /\ Served(r) =>
                (~Idle(r) ~> \/ Idle(r) /\ req[r].status # None
                             \/ killed)
  <2>1. Over(r) <=> \/ Idle(r) /\ req[r].status # None
                    \/ killed
    BY DEF Over
  <2> QED
    BY <2>1, AnsweredIfServed, PTL
<1> QED
  BY <1>1 DEF AcceptedAreAnswered

\* Nobody is let in during a drain.
LEMMA DrainAdmitsNobody ==
    ASSUME LifeInv, [LifeNext]_lifeVars, stage = "draining",
           stage' = "draining", NEW r \in Requests, Idle(r)
    PROVE  Idle(r)'
<1>1. req \in [Requests -> Request]
  BY DEF LifeInv, IndInv, TypeOK
<1>2. ASSUME NEW s \in Requests, Serve(s) \/ ServeUnevenly(s)
      PROVE  Idle(r)'
  <2>1. s # r
    BY <1>2 DEF Serve, ServeUnevenly, Progress, CreateParent, CreateStamp,
       DeleteRecheck, RoleUnavailable, CreateInsert, EditWrite, DeleteWrite,
       RoleAnswer, QueryFails, Idle
  <2> QED
    BY <1>2, <2>1, OneSlot DEF Serve, ServeUnevenly, LifeInv, OthersStay, Idle
<1>3. CASE Outside
  <2>1. ASSUME NEW u \in Moderators, ChangeRole(u) PROVE Idle(r)'
    BY <1>1, <2>1 DEF ChangeRole, Request, Idle
  <2> QED
    BY <1>3, <2>1 DEF Outside, NotificationEnds, Idle
<1>4. CASE UNCHANGED lifeVars
  BY <1>4 DEF lifeVars, vars, Idle
<1> QED
  BY <1>2, <1>3, <1>4
     DEF LifeNext, Boot, StartFails, Listen, Signal, Exit, Kill, Accept

\* The history variable is about the last process, not the one that runs.
KilledIsPast == stage # "off" => ~killed

LEMMA KilledAlwaysPast == LifeSpec => []KilledIsPast
<1>1. LifeInit => KilledIsPast
  BY DEF LifeInit, KilledIsPast
<1>2. KilledIsPast /\ [LifeNext]_lifeVars => KilledIsPast'
  BY DEF KilledIsPast, LifeNext, Boot, StartFails, Listen, Signal, Exit, Kill,
         Outside, Accept, Serve, ServeUnevenly, lifeVars
<1> QED
  BY <1>1, <1>2, PTL DEF LifeSpec

(***************************************************************************)
(* A drain that went on for ever would leave no request in progress: every *)
(* slot gets its answer and takes no new request.                          *)
(***************************************************************************)
LEMMA DrainEmpties ==
    ASSUME NEW r \in Requests
    PROVE  LifeSpec /\ Served(r) =>
              (<>[](stage = "draining") => <>[]Idle(r))
<1> DEFINE Draining == stage = "draining"
<1>1. LifeInv /\ [LifeNext]_lifeVars /\ Draining /\ Draining' /\ Idle(r)
         => Idle(r)'
  BY DrainAdmitsNobody
<1>2. KilledIsPast /\ Draining /\ Over(r) => Idle(r)
  BY DEF KilledIsPast, Over
<1> HIDE DEF Draining
<1>3. LifeSpec /\ Served(r) => (<>[]Draining => <>[]Idle(r))
  BY <1>1, <1>2, LifeInductive, KilledAlwaysPast, AnsweredIfServed, PTL
     DEF LifeSpec
<1> QED
  BY <1>3 DEF Draining

\* Fairness of Exit, which is possible in a drain without requests.
AllIdle == \A r \in Requests : Idle(r)

ExitRuns == []<>~(stage = "draining" /\ AllIdle) \/ []<><<Exit>>_lifeVars

\* What holds of each of finitely many slots from some time on holds of all
\* of them from the last of these times on.  (For a given set of slots this
\* is propositional; for all finite sets it takes an induction over temporal
\* formulas.)
Together == (\A r \in Requests : <>[]Idle(r)) => <>[]AllIdle

(***************************************************************************)
(* A shutdown comes to its end, for any finite number of requests and      *)
(* whether or not riley-auth and the notifier respond.                     *)
(***************************************************************************)
THEOREM EveryDrainEnds ==
    LifeSpec /\ (\A r \in Requests : Served(r)) /\ ExitRuns /\ Together
       => DrainEnds
<1> DEFINE Draining == stage = "draining"
           Off == stage = "off"
<1>1. LifeSpec /\ (\A r \in Requests : Served(r))
         => (<>[](stage = "draining") => \A r \in Requests : <>[]Idle(r))
  BY DrainEmpties
<1>2. [LifeNext]_lifeVars /\ Draining => Draining' \/ Off'
  BY DEF LifeNext, Boot, StartFails, Listen, Signal, Exit, Kill, Outside,
         Accept, Serve, ServeUnevenly, lifeVars
<1>3. <<Exit>>_lifeVars => Off'
  BY DEF Exit
<1>4. Draining => ~Off
  OBVIOUS
<1>5. LifeSpec /\ (\A r \in Requests : Served(r)) /\ Together
         => (<>[]Draining => <>[]AllIdle)
  BY <1>1 DEF Together
<1> HIDE DEF Draining, Off
<1>6. LifeSpec /\ (\A r \in Requests : Served(r)) /\ Together /\ ExitRuns
         => (Draining ~> Off)
  BY <1>2, <1>3, <1>4, <1>5, PTL DEF LifeSpec, ExitRuns, Draining
<1> QED
  BY <1>6 DEF DrainEnds, Draining, Off
=============================================================================
