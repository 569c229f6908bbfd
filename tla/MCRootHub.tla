------------------------------ MODULE MCRootHub ------------------------------
(* The sets of requests the runs of RootHub let the hub driver make.        *)
EXTENDS RootHub

Everything == AllRequests

\* What a hub driver asks of a port while it enumerates a device.
Enumeration == {SetFeature("PORT_RESET")} \union Acknowledgements
=============================================================================
