--------------------------- MODULE MCWireProtocol ---------------------------
EXTENDS WireProtocol

AllCalls == DOMAIN Client
Followers == {"GetMemType", "WriteProcessMemoryDetailed", "FetchModuleList"}
SymbolCalls == {"SymbolFind", "GetMemType"}
=============================================================================
