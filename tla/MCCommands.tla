----------------------------- MODULE MCCommands -----------------------------
EXTENDS Commands

MCAccount == <<"a">>
MCLocalDir == <<"/", "a">>
=============================================================================
