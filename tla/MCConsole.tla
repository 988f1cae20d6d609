------------------------------ MODULE MCConsole ------------------------------
EXTENDS Console
TwoPools == <<"app", "other">>
SomeLayouts == {<<"user", "database", "paused">>, <<"paused", "user", "database">>,
                <<"user", "database", "cl_waiting", "paused">>, <<"user", "database">>}
=============================================================================
