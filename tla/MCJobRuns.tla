----------------------------- MODULE MCJobRuns -----------------------------
EXTENDS JobRuns, TLC

MCJobs == 1..3
MCKindOf == 1 :> "restores" @@ 2 :> "licences" @@ 3 :> "licences"
MCOrder == <<"licences", "restores">>
=============================================================================
