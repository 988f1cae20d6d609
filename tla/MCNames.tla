------------------------------- MODULE MCNames -------------------------------
EXTENDS Names
SomeLetters == {"pgpod", "pooler", "stanza", "upgrade"}
SomeNumbers == {"0", "1"}
SomeJobs == {<<"upgrade", "stage">>, <<"upgrade", "run">>, <<"image", "probe">>}
SomeClusterJobs == {<<"backup", "20260101t000000">>,
                    <<"info", "20260101t000000">>, <<"stanza", "upgrade">>}
SomeJobWords == {"upgrade", "stage", "run", "image", "probe", "backup", "info",
                 "stanza", "20260101t000000"}
=============================================================================
