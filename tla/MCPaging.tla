------------------------------ MODULE MCPaging ------------------------------
EXTENDS Paging

\* Pages 0 and 1 share their last table, page 3 has another.  Page 2 is never
\* mapped.
MCVpn == {0, 1, 3}
=============================================================================
