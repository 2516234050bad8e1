-------------------------------- MODULE MCKyber --------------------------------
\* The two models of the KEM hardware that share no signal here: the register file
\* and launch control around the cores, and the matrix phase inside them.  A
\* behaviour is one of the wrapper alone or of the phase alone.
EXTENDS KyberWrapper, NttFeed

VARIABLE unit

kyberVars == <<unit, vars, feedVars>>

KyberInit ==
  /\ unit \in {"wrapper", "feed"}
  /\ Init
  /\ FeedInit
  /\ unit = "wrapper" => waits

WrapperRuns == unit = "wrapper" /\ Clock /\ UNCHANGED <<unit, feedVars>>
FeedRuns(step) == unit = "feed" /\ FeedNext /\ step /\ UNCHANGED <<unit, vars>>

KyberNext == WrapperRuns \/ FeedRuns(TRUE)

\* The fairness of Spec and of FeedFairSpec.
KyberSpec ==
  /\ KyberInit /\ [][KyberNext]_kyberVars
  /\ WF_kyberVars(WrapperRuns)
  /\ WF_kyberVars(FeedRuns(TRUE))
  /\ WF_kyberVars(FeedRuns(state = "row" /\ state' # "row"))
  /\ WF_kyberVars(FeedRuns(produced' # produced))

\* Two seed values besides zero, as model values: no step compares or orders them.
MCWords == 0 .. Total

================================================================================
