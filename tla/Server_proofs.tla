----------------------------- MODULE Server_proofs -----------------------------
(***************************************************************************)
(* What a request finds when it is served, for all clients, apps, trees of *)
(* routers and paths.                                                      *)
(***************************************************************************)
EXTENDS Server, TLAPS

\* The server and the requests, whatever they are about.
LifecycleStep ==
    \/ Startup \/ Fail \/ Shutdown
    \/ \E c \in Client : Arrive(c) \/ Handle(c) \/ Raise(c) \/ Answer(c) \/ Drop(c)

Opened == IF config.database THEN "open" ELSE "none"

\* A request says nothing of how the server came to where it is: what each
\* phase leaves behind is needed, too.
IInv ==
    /\ LifecycleTypeOK
    /\ server.at \in {"withDatabase", "withCache", "initialized", "bound", "migrated",
                      "serving", "draining", "drained"} => server.database = Opened
    /\ server.at \in {"serving", "draining"} =>
          server.apps /\ server.initialized = Apps /\ server.hook = config.hook
    /\ \A c \in Client : stage[c] # "idle" => server.at \in {"serving", "draining"}

-----------------------------------------------------------------------------
\* What a request is about does not matter to the server.
LEMMA StepOfLifecycle == Next => LifecycleStep
<1> SUFFICES ASSUME Next PROVE LifecycleStep
  OBVIOUS
<1>1. CASE Start
  BY <1>1 DEF Start, LifecycleStep
<1>2. ASSUME NEW c \in Client, Ask(c) \/ AskAsDocumented(c) \/ Follow(c) \/ Step(c) \/ Disconnect(c)
      PROVE  Arrive(c) \/ Handle(c) \/ Raise(c) \/ Answer(c) \/ Drop(c)
  <2>1. Ask(c) \/ AskAsDocumented(c) \/ Follow(c) => Arrive(c)
    BY DEF Ask, AskAsDocumented, Follow
  <2>2. AddSlash(c) \/ StaticFile(c) \/ Respond(c) \/ ErrorPage(c) => Answer(c)
    BY DEF AddSlash, StaticFile, Respond, ErrorPage
  <2>3. Route(c) => Raise(c) \/ Handle(c)
    BY DEF Route
  <2>4. ReverseRedirect(c) => Raise(c) \/ Answer(c)
    BY DEF ReverseRedirect
  <2>5. ViewFails(c) => Raise(c)
    BY DEF ViewFails
  <2>6. ErrorHandlerPanics(c) \/ Disconnect(c) => Drop(c)
    BY DEF ErrorHandlerPanics, Disconnect
  <2> QED
    BY <1>2, <2>1, <2>2, <2>3, <2>4, <2>5, <2>6 DEF Step
<1> QED
  BY <1>1, <1>2 DEF Next, LifecycleStep

LEMMA InitIInv == ServerInit => IInv
BY AppsAssumption DEF ServerInit, Init, NewServer, IInv, LifecycleTypeOK

LEMMA StartupIInv == IInv /\ Startup => IInv'
<1> SUFFICES ASSUME IInv, Startup PROVE IInv'
  OBVIOUS
<1> USE AppsAssumption DEF IInv, LifecycleTypeOK, Opened
<1>1. CASE WithConfig \/ WithCache \/ Boot \/ Bind
  BY <1>1 DEF WithConfig, WithCache, Boot, Bind, Moves
<1>2. CASE WithApps
  BY <1>2 DEF WithApps
<1>3. CASE WithDatabase
  BY <1>3 DEF WithDatabase
<1>4. CASE Migrate
  BY <1>4 DEF Migrate
<1>5. CASE InitApp
  BY <1>5 DEF InitApp
<1>6. CASE Serve
  BY <1>6 DEF Serve, Config
<1> QED
  BY <1>1, <1>2, <1>3, <1>4, <1>5, <1>6 DEF Startup

LEMMA ShutdownIInv == IInv /\ (Fail \/ Shutdown) => IInv'
<1> SUFFICES ASSUME IInv, Fail \/ Shutdown PROVE IInv'
  OBVIOUS
<1> USE DEF IInv, LifecycleTypeOK, Opened
<1>1. CASE Fail
  BY <1>1 DEF Fail
<1>2. CASE ShutdownSignal
  BY <1>2 DEF ShutdownSignal, Moves
<1>3. CASE Drained
  BY <1>3 DEF Drained
<1>4. CASE Close
  BY <1>4 DEF Close
<1> QED
  BY <1>1, <1>2, <1>3, <1>4 DEF Shutdown

\* Only Arrive brings a request in, and only while the server is serving.
LEMMA RequestIInv ==
  ASSUME NEW c \in Client, IInv, Arrive(c) \/ Handle(c) \/ Raise(c) \/ Answer(c) \/ Drop(c)
  PROVE  IInv'
<1> USE DEF IInv, LifecycleTypeOK, Opened, Enters
<1>1. CASE Arrive(c)
  BY <1>1 DEF Arrive
<1>2. CASE Handle(c) \/ Raise(c)
  BY <1>2 DEF Handle, Raise
<1>3. CASE Answer(c) \/ Drop(c)
  BY <1>3 DEF Answer, Drop
<1> QED
  BY <1>1, <1>2, <1>3

LEMMA StutterIInv == IInv /\ UNCHANGED vars => IInv'
BY DEF IInv, LifecycleTypeOK, Opened, vars

LEMMA InvariantHolds == Spec => []IInv
<1>1. IInv /\ [Next]_vars => IInv'
  BY StepOfLifecycle, StartupIInv, ShutdownIInv, RequestIInv, StutterIInv DEF LifecycleStep
<1> QED
  BY InitIInv, <1>1, PTL DEF Spec

\* Server and requests only ever have the shapes that TypeOK gives them.
THEOREM LifecycleTypeCorrect == Spec => []LifecycleTypeOK
<1>1. IInv => LifecycleTypeOK
  BY DEF IInv
<1> QED
  BY <1>1, InvariantHolds, PTL

\* No request is served before the apps are initialized and put back into the
\* context, nor after the database was closed, however start, shutdown, errors
\* and clients that go away interleave.
THEOREM RequestsFindAll == Spec => []ServesWhenReady
<1>1. IInv => ServesWhenReady
  BY DEF IInv, ServesWhenReady, Opened
<1> QED
  BY <1>1, InvariantHolds, PTL

=============================================================================
