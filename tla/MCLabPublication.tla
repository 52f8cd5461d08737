-------------------------- MODULE MCLabPublication --------------------------
EXTENDS LabPublication, TLC

CONSTANTS get, post, cli, serve, command, r1, r2

\* Two requests of one lab serve process, and a lab invoke beside it.
MCProcessOf == get :> serve @@ post :> serve @@ cli :> command

\* Two requests of one lab serve process alone.
MCServeOnly == get :> serve @@ post :> serve

\* Artifact 2 is the result: proofbundle.Verify opens it twice, and Engine.Verify
\* once more before the other.
MCRereads == <<2, 2, 1>>
=============================================================================
