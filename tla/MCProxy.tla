-------------------------------- MODULE MCProxy --------------------------------
(*****************************************************************************)
(* One proxy; proxies do not share anything but the server.  Its sockets     *)
(* hold fewer messages than it sends, so that loops wait for each other.     *)
(*****************************************************************************)
EXTENDS Proxy
===============================================================================
