------------------------------- MODULE MCKeyPath -------------------------------
\* The two units a key comes from: the PUF and the fuzzy extractor.  Firmware waits
\* for the one before it starts the other, and no signal of one reaches the other
\* while it works; a behaviour is one of the PUF alone or of the extractor alone.
EXTENDS PufTop, FuzzyExtractor

VARIABLE unit

keyVars == <<unit, pufVars, feVars>>

KeyInit == unit \in {"puf", "extractor"} /\ PufInit /\ Init

PufRuns(step) == unit = "puf" /\ step /\ UNCHANGED <<unit, feVars>>
ExtractorRuns(step) == unit = "extractor" /\ Next /\ step /\ UNCHANGED <<unit, pufVars>>

KeyNext == PufRuns(PufNext) \/ ExtractorRuns(TRUE)

\* The fairness of PufFairSpec and of FairSpec.
KeySpec ==
  /\ KeyInit /\ [][KeyNext]_keyVars
  /\ WF_keyVars(PufRuns(Clock))
  /\ WF_keyVars(ExtractorRuns(TRUE))
  /\ WF_keyVars(ExtractorRuns(DecoderAnswers))

\* The code that says two words three times.
MCEcc(d) == d \o d
MCEnrolled == {<<TRUE, FALSE, TRUE, TRUE, FALSE, FALSE>>, <<FALSE, TRUE, FALSE, FALSE, TRUE, FALSE>>}

\* No noise, each single wrong word, two that look like one in another codeword,
\* and two that no codeword is close to.
Wrong(ws) == [i \in 1 .. 6 |-> i \in ws]
MCNoise == {Wrong({w}) : w \in 1 .. 6} \cup {Wrong({}), Wrong({1, 3}), Wrong({1, 4})}
MCMiscorrected == {Wrong({}), Wrong({4, 5}), Wrong({1, 4})}

================================================================================
