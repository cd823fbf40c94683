---------------------------- MODULE NetlinkModule ----------------------------
(***************************************************************************)
(* net/netlink: main_mod.c opens a netlink socket in the kernel, which     *)
(* prints what is sent to it; main.c opens a socket of the same protocol,  *)
(* sends one message and ends.  The module passes itself as the owner of   *)
(* the protocol, so that every open socket of a user is a reference to it; *)
(* the files stand for these sockets.                                      *)
(***************************************************************************)
EXTENDS LoadedModule

\* my_module_init() loads the module even if netlink_kernel_create() fails.
NetlinkCreate ==
  /\ program = "netlink" /\ state = "init"
  /\ \E created \in BOOLEAN :
       hooks' = hooks \cup (IF created THEN {"netlink"} ELSE {})
  /\ state' = "live"
  /\ UNCHANGED <<program, at, refs, calls, files, device, held>>

\* my_module_exit() looks into nl_sk even if it is NULL.
SockRelease ==
  /\ program = "netlink" /\ state = "exit"
  /\ hooks' = hooks \ {"netlink"}
  /\ state' = IF "netlink" \in hooks THEN "gone" ELSE "oops"
  /\ UNCHANGED <<program, at, refs, calls, files, device, held>>

----------------------------------------------------------------------------
(* main.c, once for each file *)

\* socket(); if it fails the calls that follow it do, and nothing happens.
Socket(f) ==
  /\ "netlink" \in hooks /\ Gettable
  /\ FileStep(f, "closed", "open")
  /\ refs' = refs + 1

\* sendmsg() runs nl_data_ready() and waits for it.
SendMsg(f) ==
  /\ program = "netlink"
  /\ FileStep(f, "open", "busy")
  /\ UNCHANGED refs

\* nl_data_ready() has printed the message.
DataReady(f) ==
  /\ program = "netlink"
  /\ FileStep(f, "busy", "releasing")
  /\ UNCHANGED refs

\* close()
Close(f) ==
  /\ program = "netlink"
  /\ FileStep(f, "releasing", "closed")
  /\ refs' = refs - 1

NetlinkNext ==
  \/ NetlinkCreate
  \/ SockRelease
  \/ \E f \in File : Socket(f) \/ SendMsg(f) \/ DataReady(f) \/ Close(f)

==============================================================================
