-------------------------- MODULE MCPoolEnrolment --------------------------
(* One mobile.  The deployment: buffer enrols in one process, promote in   *)
(* another; and one where an operator enrols buffer in the second as well. *)
EXTENDS PoolEnrolment

MCHosts  == {"cms", "ums"}
MCSplit  == {<<"cms", "bufferClients", "auto">>, <<"cms", "bufferClients", "create">>,
             <<"ums", "promoteClients", "setAs">>}
MCShared == {<<"cms", "bufferClients", "auto">>, <<"ums", "bufferClients", "setAs">>,
             <<"ums", "promoteClients", "auto">>}
=============================================================================
