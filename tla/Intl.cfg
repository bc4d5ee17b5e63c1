SPECIFICATION IntlSpec
CONSTANTS
  Subjects = {"plural", "printf", "gettext", "catalog", "alias"}
  ULong = 4
  YYINITDEPTH = 4
  YYMAXDEPTH = 10
  Lexemes <- MCLexemes
  MaxTokens = 5
  NoExp = NoExp
  Formats <- MCFormatSet
  Tails = {0, 2}
  Callers = {"vfprintf", "vasprintf", "vsprintf", "vsnprintf"}
  Lengths = {0, 1, 4, 9}
  Libc = {"c99", "no%n", "hpux"}
  Endless = 1000
  MaxMemory = 100
  Lower <- MCLower
  Numerals = {"8"}
  TokenOrder <- MCTokens
  LocaleAliases <- MCAliases
  Catalogs <- MCCatalogs
  NULL = NULL
  TextDomains <- MCDomains
  Dirnames <- MCDirnames
  DefaultDirname <- Usr
  Cwd <- CwdDir
  Codesets <- MCCodesets
  LocaleCharset = "utf8"
  Convertible <- MCConvertible
  Environments <- MCEnvironments
  Msgids = {"a", "b"}
  Numbers = {2}
  XpgNames <- MCXpg
  MaxChanges <- MCMaxChanges
  HashWord = 4096
  LongWord = 65536
  DescSize = 2
  MoFiles <- MCMoFiles
  SegmentValues <- MCSegmentValues
  Asked <- MCAsked
  NoText = NoText
  AliasPaths <- MCAliasPaths
  AliasFiles <- Spaced
  WordRank <- MCWordRank
  WordLength <- MCWordLength
  FirstMap = 1
  PoolStep = 20
  LookedUp <- MCLookedUp
  NoAlias = NoAlias
INVARIANTS
  
  ExpressionsAreAccounted
  ArgumentsAreTheirOwn
  BuffersSuffice
  NothingIsLeaked
  ListsAreSearchable
  LookupIsExact
  PassesAgree
  NothingStaysBehind
  AliasesAreFound
  TableIsIntact
PROPERTIES
  FormattingEnds
  
CHECK_DEADLOCK FALSE
