-------------------------- MODULE MCGenpipeHooks --------------------------
(* Instances of GenpipeHooks for TLC. *)
EXTENDS GenpipeHooks

CONSTANTS genpipe0, c1, c2

OneInstance == {genpipe0}
MCCpus == {c1, c2}
OneCpu == {c1}

MCSites == <<"napi_gro_receive", "netif_rx", "printk", "__netdev_alloc_skb">>
MCBase == <<"ip_rcv", "arp_rcv", "ipv6_rcv", "packet_rcv">>
MCAll == <<"packet_rcv", "tpacket_rcv">>

AllSymbols == Required \union Allocators \union Protocols \union {"ptype_base", "ptype_all"}
MCTables == {AllSymbols, AllSymbols \ {"arp_rcv"}, AllSymbols \ {"ptype_all"},
             AllSymbols \ {"ptype_base"}, AllSymbols \ {"netif_rx"}}
FullTable == {AllSymbols}
=============================================================================
