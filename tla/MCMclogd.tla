------------------------------ MODULE MCMclogd ------------------------------
EXTENDS Mclogd

\* Everything, over both families; and what a file without any section asks for.
Full    == [loopback |-> Families, sender |-> Families, receiver |-> Families, files |-> TRUE,
            outFilter |-> TRUE]
Default == [loopback |-> {"ipv4"}, sender |-> {}, receiver |-> {}, files |-> FALSE,
            outFilter |-> TRUE]

\* An outFilter that is no expression.
BadFilter == [Default EXCEPT !.outFilter = FALSE]

MCConfigs == {Full, Default, BadFilter}
=============================================================================
