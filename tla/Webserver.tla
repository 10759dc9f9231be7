------------------------------ MODULE Webserver ------------------------------
(***************************************************************************)
(* Network set-up of the webserver example, apps/examples/webserver/       *)
(* webserver_main.c, in its DHCP client configuration                      *)
(* (CONFIG_EXAMPLES_WEBSERVER_DHCPC): eth0 gets address 0 and the static   *)
(* router and netmask, then a DHCP request; the fields of the reply that   *)
(* are not zero replace the static ones; then the HTTP server starts and   *)
(* the task sleeps forever.                                                *)
(*                                                                         *)
(* Addresses are model values.  The board has one interface, eth0: a       *)
(* netlib call naming any other interface fails and changes nothing.       *)
(* dhcpc_open may fail (NULL); dhcpc_request (apps/netutils, not under     *)
(* src/) either fills the reply with a lease, whose netmask, router and    *)
(* DNS fields may each be zero, or fails and leaves the caller's stack     *)
(* struct as it was: uninitialised, so each field holds Zero or Garbage.   *)
(***************************************************************************)
CONSTANTS
    Zero,           \* the address 0
    Garbage,        \* a stale stack value that is no address at all
    DrAddr,         \* CONFIG_EXAMPLES_WEBSERVER_DRIPADDR
    NetMask,        \* CONFIG_EXAMPLES_WEBSERVER_NETMASK
    LeaseIp,        \* the address the server leases
    LeaseMask,      \* the netmask it sends
    LeaseDr,        \* the router it sends
    LeaseDns        \* the DNS server it sends

Addrs == {Zero, Garbage, DrAddr, NetMask, LeaseIp, LeaseMask, LeaseDr, LeaseDns}

\* The interface of the board.
Ifs == {"eth0"}

VARIABLES
    ifc,        \* ifc[i]: host address, router and netmask of interface i
    dns,        \* the resolver's server
    ds,         \* the struct dhcpc_state on the stack
    reqOk,      \* dhcpc_request returned OK
    pc          \* "setup", "open", "request", "apply", "serve"

vars == <<ifc, dns, ds, reqOk, pc>>

Conf == [host : Addrs, dr : Addrs, mask : Addrs]
Reply == [ipaddr : Addrs, netmask : Addrs, default_router : Addrs, dnsaddr : Addrs]

TypeOK ==
    /\ ifc \in [Ifs -> Conf]
    /\ dns \in Addrs
    /\ ds \in Reply
    /\ reqOk \in BOOLEAN
    /\ pc \in {"setup", "open", "request", "apply", "serve"}

(* Helpers.                                                                *)

\* netlib_set*addr(name, field, value): the interface's field, when the
\* interface exists.
SetIf(name, field, a) ==
    IF name \in Ifs THEN [ifc EXCEPT ![name][field] = a] ELSE ifc

(* Actions.                                                                *)

\* Before set-up nothing is configured and the stack holds anything.
Init ==
    /\ ifc = [i \in Ifs |-> [host |-> Zero, dr |-> Zero, mask |-> Zero]]
    /\ dns = Zero
    /\ ds \in [ipaddr : {Zero, Garbage}, netmask : {Zero, Garbage},
               default_router : {Zero, Garbage}, dnsaddr : {Zero, Garbage}]
    /\ reqOk = FALSE
    /\ pc = "setup"

\* webserver_main.c:139-156: host address 0, the static router and mask.
Setup ==
    /\ pc = "setup"
    /\ ifc' = [ifc EXCEPT !["eth0"] = [host |-> Zero, dr |-> DrAddr, mask |-> NetMask]]
    /\ pc' = "open"
    /\ UNCHANGED <<dns, ds, reqOk>>

\* 158-176: dns_bind, netlib_getmacaddr, dhcpc_open; with a NULL handle the
\* DHCP block is skipped.
Open ==
    /\ pc = "open"
    /\ pc' \in {"request", "serve"}
    /\ UNCHANGED <<ifc, dns, ds, reqOk>>

\* 178-179: (void)dhcpc_request(handle, &ds); its result is not looked at.
Request ==
    /\ pc = "request"
    /\ \/ /\ reqOk' = TRUE
          /\ ds' \in [ipaddr : {LeaseIp}, netmask : {Zero, LeaseMask},
                      default_router : {Zero, LeaseDr}, dnsaddr : {Zero, LeaseDns}]
       \/ /\ reqOk' = FALSE
          /\ UNCHANGED ds
    /\ pc' = "apply"
    /\ UNCHANGED <<ifc, dns>>

\* 180-199: the leased address to "eth1", then each non-zero field of the
\* reply: netmask, router, DNS server; dhcpc_close.
Apply ==
    LET i1 == SetIf("eth1", "host", ds.ipaddr)
        i2 == IF ds.netmask # Zero
              THEN [i1 EXCEPT !["eth0"].mask = ds.netmask] ELSE i1
        i3 == IF ds.default_router # Zero
              THEN [i2 EXCEPT !["eth0"].dr = ds.default_router] ELSE i2
    IN
    /\ pc = "apply"
    /\ ifc' = i3
    /\ dns' = IF ds.dnsaddr # Zero THEN ds.dnsaddr ELSE dns
    /\ pc' = "serve"
    /\ UNCHANGED <<ds, reqOk>>

\* 202-216: httpd_init, cgi_register, httpd_listen; then sleep forever.
Serve ==
    /\ pc = "serve"
    /\ UNCHANGED vars

Next == Setup \/ Open \/ Request \/ Apply \/ Serve

Spec == Init /\ [][Next]_vars

(* Properties.                                                             *)

(* The leased address is used: once serving after a successful request,   *)
(* eth0 has the address the server leased (the comment at 171-173 and the  *)
(* "IP:" message at 198 say the example gets its address by DHCP).         *)
LeaseOnEth0 ==
    pc = "serve" /\ reqOk => ifc["eth0"].host = LeaseIp

(* Only addresses are configured: eth0 and the resolver never get a value  *)
(* read from the uninitialised reply struct.                               *)
NoGarbageConfig ==
    /\ \A i \in Ifs : Garbage \notin {ifc[i].host, ifc[i].dr, ifc[i].mask}
    /\ dns # Garbage

=============================================================================
