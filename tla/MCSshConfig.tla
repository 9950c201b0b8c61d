---------------------------- MODULE MCSshConfig -------------------------------
(* SshConfig with the chains of SSH proxies a configuration can have.      *)
EXTENDS SshConfig
JumperOnly == <<"jumper">>
===============================================================================
