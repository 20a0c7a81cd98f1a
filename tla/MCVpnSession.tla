----------------------------- MODULE MCVpnSession -----------------------------
\* VpnSession with short prepaid periods: the margin reaches past a first
\* payment, as it does with the shortest periods providers sell.
EXTENDS VpnSession

\* A user of proxies and a user of VPNs.
MCOffers == {{"proxy"}, {"vpn"}}
=============================================================================
