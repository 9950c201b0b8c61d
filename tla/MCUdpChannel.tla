---------------------------- MODULE MCUdpChannel ------------------------------
(* UdpChannel for three clients: two of them ask the same host.            *)
EXTENDS UdpChannel
Three == {[local |-> 1, addr |-> 1, port |-> 1], [local |-> 2, addr |-> 1, port |-> 2],
          [local |-> 3, addr |-> 2, port |-> 1]}
===============================================================================
