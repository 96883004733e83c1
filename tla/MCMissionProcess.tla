-------------------------- MODULE MCMissionProcess --------------------------
(* Small instance of MissionProcess for TLC. *)
EXTENDS MissionProcess

CONSTANTS r, a, b, it

\* Two assistants, one of whom also signs; the administrator does the rest.
MCGrantable == {<<a, "assistance">>, <<b, "assistance">>, <<b, "signature">>}

\* The terms of reference are replaced, the other pieces are uploaded once.
MCUploads == {<<"terms_of_reference", "v1">>, <<"terms_of_reference", "v2">>,
              <<"order_draft", "v1">>, <<"ticket", "v1">>}
=============================================================================
