------------------------------- MODULE FeedData -------------------------------
(* raw_data of comp3_data.h: the messages comp3.c reads, 200 in a row and then     *)
(* every third.  A message is the tuple of its fields as a little-endian load       *)
(* gives them: type, subtype, trade_type, side, price, contracts, liquidity,        *)
(* strike, expiration, and the first of the two words of message_id.  timestamp     *)
(* and symbol are not read.                                                         *)
EXTENDS Integers

Row1 == <<
    <<"N","E","P","B",-150142976,7168,2,60173,3072,434832640>>, <<"N","E","P","S",-888864768,3840,2,55813,768,710215168>>,
    <<"N","E","P","B",1846149120,7680,1,24842,512,1939343104>>, <<"N","E","C","B",-970391552,3840,2,52009,1792,-1302525696>>,
    <<"N","E","P","S",2065891328,8960,1,33571,2816,1367607808>>, <<"N","E","C","B",788725760,8704,2,11779,1536,-991098368>>,
    <<"N","E","P","S",1175715840,6912,1,18196,2304,1966607616>>, <<"N","E","C","B",1210712064,1280,1,17706,1792,-394194432>>,
    <<"N","E","P","B",2046820352,1792,1,34560,2560,-1933569280>>, <<"N","E","C","S",-164823040,1024,1,64301,1024,1218974976>>,
    <<"N","E","P","B",1278214144,8704,1,22320,3072,-1101195520>>, <<"N","E","P","B",2033451008,5120,1,26164,2304,1207441920>>,
    <<"N","E","C","B",1679687680,6400,1,27934,1024,-415031040>>, <<"N","E","P","B",520945664,6912,2,11277,2304,970400000>>,
    <<"N","E","C","S",2080768000,2304,1,32774,2048,-992271872>>, <<"N","E","C","S",236453888,3584,2,536,3328,813245184>>,
    <<"N","E","C","B",-920387584,4864,1,51492,1280,1579362304>>, <<"N","E","P","S",-838860800,6144,1,51968,3328,1303062784>>,
    <<"N","E","C","B",1243414528,8192,2,16925,1280,-26465024>>, <<"N","E","P","B",-2096300032,8960,1,37389,2048,-1226690560>>,
    <<"N","E","P","B",-1945370624,8960,1,35340,3328,-1089326080>>, <<"N","E","P","S",1276706816,1792,1,23577,1280,-1211943936>>,
    <<"N","E","C","B",-180813824,7424,2,62521,1280,-1788987648>>, <<"N","E","C","S",16973824,5120,1,2819,1280,-1483392512>>,
    <<"N","E","C","S",2097152,8448,2,65055,2048,1648245760>>, <<"N","E","C","B",924647424,5120,2,14621,1536,958086400>>,
    <<"N","E","P","S",841940992,8960,1,11567,2048,925122048>>, <<"N","E","P","B",1795489792,7680,1,27909,1024,-1002028800>>,
    <<"N","E","P","S",68354048,3328,2,3347,1792,-1363787264>>, <<"N","E","C","S",422445056,1792,1,7726,768,990791936>>,
    <<"N","E","P","B",-1959919616,2816,2,40238,2048,578374400>>, <<"N","E","P","B",-1943601152,4608,1,30759,1280,910577152>>,
    <<"N","E","P","B",488177664,4864,1,8729,768,1314541568>>, <<"N","E","C","B",570753024,1792,1,11525,1280,-409448192>>,
    <<"N","E","P","S",338100224,5120,1,1063,768,586765312>>, <<"N","E","P","S",84606976,2304,1,5899,1536,1491031552>>,
    <<"N","E","P","B",-385810432,1792,1,58113,1280,1697470976>>, <<"N","E","P","B",1177485312,2304,1,20783,1280,-560440832>>,
    <<"N","E","C","S",-418840576,4608,2,63241,768,663247872>>, <<"N","E","C","S",-47906816,5376,2,1830,3328,-1738514432>>,
    <<"N","E","P","S",-399179776,7936,1,55093,2048,-1612816384>>, <<"N","E","P","S",-1540816896,8448,2,38185,1792,1141203712>>,
    <<"N","E","C","S",-502202368,7424,2,60177,1024,-567319296>>, <<"N","E","C","B",322174976,2816,1,3892,2816,-1901238528>>,
    <<"N","E","P","S",-197853184,4096,2,63541,3072,-81958400>>, <<"N","E","P","B",-535953408,1024,2,54030,2560,-2132251904>>,
    <<"N","E","P","B",-1573584896,3584,1,45621,1024,812478720>>, <<"N","E","C","S",-1138425856,2304,1,46117,3328,-1660063232>>,
    <<"N","E","P","B",-1239023616,4864,2,48422,2048,-1737657856>>, <<"N","E","P","S",1814233088,3840,1,28707,1536,703624448>>,
    <<"N","E","C","B",2067333120,1024,2,31801,3328,1629190400>>, <<"N","E","P","S",-872284160,1280,1,55298,2816,845249536>>,
    <<"N","E","C","B",-1895366656,6656,2,33799,2560,1522826240>>, <<"N","E","P","S",504692736,8192,2,9749,3328,603749632>>,
    <<"N","E","C","S",1932656640,6656,2,27186,2048,-547389952>>, <<"N","E","P","B",-2010972160,5120,2,38947,512,1524662272>>,
    <<"N","E","C","B",-1677459456,3072,1,37892,1024,-11632128>>, <<"N","E","P","B",-167641088,1536,1,59138,1280,1092912384>>,
    <<"N","E","P","S",523042816,3072,1,11053,2304,-215316736>>, <<"N","E","P","S",1125515264,7680,2,13078,2560,412452608>>,
    <<"N","E","P","B",1544355840,4608,2,24589,1792,700155904>>, <<"N","E","C","S",2014314496,6656,1,30736,512,2127464960>>,
    <<"N","E","C","S",-1290862592,5632,1,49167,2048,284396288>>, <<"N","E","C","S",-14417920,4864,1,63268,1280,2050919936>>,
    <<"N","E","C","S",-2060648448,3840,2,34861,1792,1933872896>>, <<"N","E","C","S",-130678784,7936,2,65334,768,1248825344>>,
    <<"N","E","P","S",101777408,5376,2,62480,2048,-941321728>>, <<"N","E","P","S",1781989376,1280,2,28215,2816,-1762159872>>,
    <<"N","E","C","B",187564032,6144,2,3630,512,1922734336>>, <<"N","E","P","B",1982070784,3840,1,33316,2304,1185389568>>,
    <<"N","E","P","S",1327562752,6912,1,22049,1280,553098752>>, <<"N","E","P","B",2097741824,7680,2,35337,2560,8364288>>,
    <<"N","E","P","S",-1322057728,6144,2,47667,1280,-359226368>>, <<"N","E","C","B",-888209408,5632,2,48143,768,269395200>>,
    <<"N","E","P","B",-2063335424,1792,1,36868,1536,880125184>>, <<"N","E","P","S",-1961754624,8960,1,38162,1792,-164583936>>,
    <<"N","E","P","B",1158021120,6912,2,16390,1792,1157801984>>, <<"N","E","C","B",405405696,768,2,6442,1792,-1687639552>>,
    <<"N","E","P","B",1712914432,1792,2,23065,2816,1273605120>>, <<"N","E","P","S",-332922880,8960,2,60712,1280,-1364022016>>,
    <<"N","E","C","B",-1105985536,1280,2,51988,512,1085976064>>, <<"N","E","P","S",-2043412480,7680,2,34868,1024,-248140032>>,
    <<"N","E","C","S",859439104,7168,2,10810,1024,-2049265408>>, <<"N","E","P","B",18219008,3072,1,64789,1536,1575007232>>,
    <<"N","E","C","B",-2012807168,5632,2,39175,512,-726485760>>, <<"N","E","C","S",-1960247296,2560,1,30505,2304,-1710769920>>,
    <<"N","E","P","B",-568000512,768,1,56869,2816,517191936>>, <<"N","E","C","S",-216530944,3584,2,58648,2048,-2017608960>>,
    <<"N","E","C","S",738263040,6656,1,6913,512,-1531003648>>, <<"N","E","P","S",-1456340992,5376,2,47666,1536,-1896955904>>,
    <<"N","E","C","B",1160708096,8704,1,17711,1536,352961280>>, <<"N","E","P","B",-937230336,6912,2,51491,512,325960704>>,
    <<"N","E","P","S",522977280,4864,1,4908,3328,974374144>>, <<"N","E","C","S",-1960378368,1792,2,37927,2816,-303708928>>,
    <<"N","E","P","S",1798176768,4096,2,26414,1792,-772945920>>, <<"N","E","C","B",891617280,2048,1,10789,3072,1369950720>>,
    <<"N","E","P","B",1277493248,768,1,20005,2816,-1107571712>>, <<"N","E","C","B",1612185600,5120,1,20760,1792,-310850304>>,
    <<"N","E","C","S",589824000,7168,2,9256,512,-945959424>>, <<"N","E","C","S",-1425145856,3840,1,39694,1536,-2141597440>>,
    <<"N","E","C","B",-165543936,2560,1,59682,1792,2100352000>>, <<"N","E","P","B",-620429312,2816,1,54021,2560,803984896>>,
    <<"N","E","P","B",1143406592,8192,2,17959,3072,-1216620288>>, <<"N","E","C","S",-1945894912,1280,1,39940,512,1633344512>>,
    <<"N","E","P","S",-1238827008,4864,2,46121,1024,1930485504>>, <<"N","E","P","B",-752222208,7680,1,54570,3328,-1767710464>>,
    <<"N","E","P","B",-1607073792,8192,2,39222,2560,-1440881408>>, <<"N","E","C","S",-1492779008,2048,2,44550,3328,-1522145280>>,
    <<"N","E","C","S",371785728,5376,2,10537,1792,-1698305280>>, <<"N","E","P","B",-366608384,6912,1,54822,1792,-1560154880>>,
    <<"N","E","P","B",-1642332160,5120,1,43548,3072,-824316672>>, <<"N","E","C","B",1025703936,2560,2,18467,2048,1333784320>>,
    <<"N","E","C","B",-986251264,8448,1,52791,2816,31649536>>, <<"N","E","C","S",-702218240,3328,1,57637,512,-1325796864>>,
    <<"N","E","P","B",338165760,2304,2,9000,1792,-998312704>>, <<"N","E","C","S",-2059796480,3072,1,28986,2048,-1969817856>>,
    <<"N","E","P","S",-1861222400,7680,2,41488,1792,-1615202304>>, <<"N","E","P","B",-1523318784,3072,2,37172,2048,-851707136>>,
    <<"N","E","C","S",-1121910784,6656,1,47905,1792,-242811136>>, <<"N","E","C","S",-1791361024,1792,2,37434,3072,1654522625>>,
    <<"N","E","C","B",-1305804800,6144,2,40491,768,-413530623>>, <<"N","E","C","B",639631360,1792,1,13600,2560,2016020481>>,
    <<"N","E","C","B",572391424,768,2,8222,512,-1232532735>>, <<"Q","u","C","B",1043988480,6400,1,17978,1280,1182469121>>,
    <<"N","E","P","S",-97386496,8192,1,63794,2816,-1493758975>>, <<"N","E","C","S",805896192,1280,2,11785,1280,-498201087>>,
    <<"X","v","P","S",-2026700800,3584,2,30771,2560,-588313087>>, <<"N","E","P","S",2065432576,768,1,26396,1024,1169035009>>,
    <<"N","E","C","B",657457152,7936,1,13872,1024,606212609>>, <<"N","E","P","S",135921664,7680,1,6170,1536,-78245119>>,
    <<"N","E","P","B",-1573388288,3328,2,42040,3072,-1317726463>>, <<"N","E","C","B",-1038286848,5888,1,50461,768,1981749249>>,
    <<"N","E","C","B",857931776,3072,2,13091,768,-292677631>>, <<"N","E","C","B",-1809055744,1024,2,38188,3072,-904848639>>,
    <<"N","E","P","B",-1375600640,6144,2,41474,1280,1112677889>>, <<"B","u","C","S",-1609826304,7168,2,41740,1792,-1149885951>>,
    <<"N","E","C","B",1761673216,768,2,27905,1280,-69852671>>, <<"N","E","P","B",957153280,768,1,16141,768,-1987566335>>,
    <<"N","E","C","S",1811939328,5888,1,26368,3328,-407295999>>, <<"N","E","C","S",-520093696,1024,1,53760,1536,-3331839>>,
    <<"N","E","P","B",992411648,8704,1,18215,1024,-1609159679>>, <<"N","E","C","S",1815281664,1792,2,23603,1792,810561281>>,
    <<"N","E","P","B",419758080,3584,2,11525,1536,-1280233471>>, <<"N","E","C","B",-1909784576,8192,2,39467,1024,-1320274431>>,
    <<"N","E","C","B",942014464,8192,2,16934,2304,-143247103>>, <<"N","E","C","S",-1005584384,7680,2,48912,3328,-1012122879>>,
    <<"N","E","P","S",-1643249664,768,1,43022,2048,964246785>>, <<"N","E","C","B",202833920,7168,2,5399,1280,849886977>>,
    <<"N","E","C","B",1797914624,6400,1,30762,2304,665993729>>, <<"N","E","P","S",-1171587072,6400,2,47915,2560,279921921>> >>

Row2 == <<
    <<"N","E","C","S",304414720,7168,1,1061,1280,381372161>>, <<"N","E","C","S",-719781888,4864,1,53529,1024,794380289>>,
    <<"N","E","P","S",-1508442112,5120,1,42007,512,335366145>>, <<"N","E","C","S",1813708800,1536,2,26395,1792,-510572031>>,
    <<"N","E","P","S",-1724710912,8960,1,43571,1024,-828027903>>, <<"N","E","P","B",2066415616,3840,2,35627,2560,-348762623>>,
    <<"S","y","P","S",521863168,2048,2,8219,2816,1641828097>>, <<"N","E","P","B",439943168,768,1,6969,512,-741388031>>,
    <<"N","E","C","S",-534052864,2816,1,54315,1792,2050840321>>, <<"N","E","P","S",-684523520,4864,2,51251,1280,1428969985>>,
    <<"N","E","P","S",1797455872,8192,1,32291,512,1090345729>>, <<"N","E","C","S",840433664,5888,2,14616,1792,-37266175>>,
    <<"N","E","P","B",1242628096,4864,2,16913,2560,-1903141375>>, <<"N","E","C","S",570556416,768,1,8450,2048,-190750975>>,
    <<"W","w","C","S",2083717120,8704,2,31795,1792,-61644799>>, <<"N","E","P","S",-1992949760,3840,2,36918,768,491741697>>,
    <<"N","E","P","B",-1827602432,7680,2,42513,2560,-116628479>>, <<"N","E","P","B",588972032,4096,2,5915,1536,888563201>>,
    <<"N","E","C","B",1292173312,1280,2,19717,2816,1494117121>>, <<"N","E","P","S",-1960116224,6144,2,33323,1536,-939037439>>,
    <<"N","E","P","B",52494336,4864,2,64032,1536,1102802177>>, <<"N","E","C","B",-13041664,2304,1,64313,768,-1262063615>>,
    <<"N","E","C","S",1378615296,8960,2,15916,768,519336449>>, <<"N","E","P","S",1192493056,3840,2,15636,2816,428766465>>,
    <<"N","E","C","S",-449839104,1024,2,56880,3328,940668673>>, <<"N","E","P","B",-2110717952,1792,1,32049,768,-1990362879>>,
    <<"N","E","C","S",1007419392,4352,1,10252,1536,1556576513>>, <<"U","y","C","S",-2095972352,5632,2,29202,512,633633281>>,
    <<"N","E","P","B",-1827274752,1024,1,40982,2560,1893169921>>, <<"N","E","C","B",1832321024,7168,1,28215,2048,853441793>>,
    <<"N","E","C","S",1109196800,6656,1,17181,2048,955284993>>, <<"N","E","P","B",-1640431616,1280,2,39737,2048,-1887141631>>,
    <<"N","E","C","B",-836501504,5376,2,53284,3328,-1077181951>>, <<"N","E","C","S",-1609236480,7936,2,44565,1024,541164545>>,
    <<"N","E","C","B",-2111963136,1024,1,34334,3072,175474433>>, <<"N","E","P","S",186122240,2304,2,1048,2048,-151483903>>,
    <<"N","E","C","B",-2028732416,8192,1,29460,768,-1839493887>>, <<"N","E","C","B",-1441005568,8704,1,47900,2048,1196592641>>,
    <<"N","E","C","S",1646919680,2048,2,25898,1024,-1828155135>>, <<"N","E","C","B",-1475543040,7680,2,45581,512,502108417>>,
    <<"N","E","P","B",-1844838400,7424,1,39178,3328,-46099711>>, <<"N","E","P","B",756940800,4864,2,7454,768,812946433>>,
    <<"N","E","C","B",-786235392,7936,2,52003,1280,-1483827455>>, <<"N","E","C","B",674234368,7168,1,10800,3328,11639297>>,
    <<"N","E","C","B",-2145976320,5120,2,37911,1280,-569402367>>, <<"N","E","C","B",-870580224,4096,2,53532,768,-1775264255>>,
    <<"N","E","C","S",17563648,7168,2,2572,512,-1332699647>>, <<"N","E","P","B",-368443392,4864,2,58890,2048,571908097>>,
    <<"N","E","C","B",-114360320,1536,1,63791,512,2061606913>>, <<"N","E","P","B",-620625920,3840,1,54018,1024,-1972002559>> >>

Row3 == <<
    <<"N","E","P","S",992935936,1280,2,10543,2048,1492492801>>, <<"N","E","C","B",-334430208,1536,2,56849,2304,2011407617>>,
    <<"N","E","P","S",68878336,6656,2,61722,2304,1572252929>>, <<"N","E","P","S",1979842560,2560,2,29186,1792,-1461276159>>,
    <<"N","E","P","B",-1256259584,1536,2,47903,2560,-25904127>>, <<"N","E","C","B",-1674248192,4352,1,41013,3328,-1015889663>>,
    <<"N","E","C","S",1510932480,6912,1,26895,2048,229164289>>, <<"N","E","C","B",-1624178688,6400,1,38961,2560,-377698047>>,
    <<"N","E","C","S",-436011008,1536,1,62211,1792,944623361>>, <<"N","E","C","S",118161408,4608,1,6667,512,-1078208255>>,
    <<"N","E","C","B",1948778496,3840,1,32808,2304,-1798053375>>, <<"N","E","P","S",-32243712,768,2,65300,512,1200811009>>,
    <<"N","E","P","B",1093730304,3584,2,16689,1792,-1181289983>>, <<"N","E","C","B",-1172963328,7680,1,48150,2560,187889921>>,
    <<"N","E","C","S",-650772480,2816,2,54582,512,-1706230527>>, <<"N","E","C","S",1076494336,7168,1,15914,768,-328596222>>,
    <<"N","E","C","B",386596864,6400,1,2315,2304,-1596978942>>, <<"N","E","P","B",-1070268416,8192,2,48437,2560,-1180626942>>,
    <<"N","E","C","S",-1473052672,1536,1,43827,1536,1927616258>>, <<"N","E","C","B",-1022492672,8192,2,54030,2560,267262722>>,
    <<"N","E","C","S",1611857920,8448,1,26387,2816,-631496702>>, <<"N","E","P","S",1178206208,8192,2,17978,512,1715217666>>,
    <<"N","E","C","S",2082537472,3584,2,32801,1536,4926722>>, <<"N","E","P","B",656932864,4864,1,11560,3072,1030107650>>,
    <<"N","E","C","S",2050097152,6912,1,35890,1536,693581058>>, <<"N","E","C","S",1108738048,2304,1,14358,1792,-812303870>>,
    <<"N","E","C","B",538378240,5376,2,8983,1792,-1739768062>>, <<"N","E","C","S",-753467392,2048,1,54807,1024,-1028308478>>,
    <<"N","E","C","B",-633929728,1536,2,55351,3328,-786544894>>, <<"N","E","C","B",-969736192,5120,1,46643,512,779111938>>,
    <<"N","E","P","S",-720896000,1024,1,51720,2816,197350146>>, <<"N","E","P","B",1443954688,8704,2,21009,1536,-1001563902>>,
    <<"N","E","C","S",589103104,5888,2,11549,1280,1938120450>>, <<"N","E","P","B",772276224,7936,2,15112,512,-2099944702>>,
    <<"N","E","C","B",-2129788928,4864,2,31758,1792,1169387010>>, <<"N","E","P","S",-519569408,4096,2,55560,3328,-535857918>>,
    <<"N","E","P","S",186580992,4864,2,3871,2560,-1685684734>>, <<"N","E","C","S",-586612736,6912,2,59913,1280,-524058110>>,
    <<"N","E","P","S",774373376,3840,1,14888,1792,1082296578>>, <<"D","z","P","B",336592896,7424,1,7184,2560,2018348802>>,
    <<"C","j","P","S",218431488,2048,2,4357,2816,-635005182>>, <<"N","E","P","S",1043136512,4096,1,15405,1792,385327106>>,
    <<"N","E","P","S",-1206714368,5376,2,46867,1536,10660098>>, <<"N","E","C","B",-1843068928,4352,2,35365,3072,738503938>>,
    <<"N","E","C","B",1661599744,7936,1,24330,2560,-1608796926>>, <<"N","E","C","S",2014707712,7168,1,32278,1024,-110446334>>,
    <<"N","E","P","S",1979711488,3072,1,30464,3328,-2034648318>>, <<"N","E","P","S",772734976,8704,1,14607,1792,-1853177598>>,
    <<"N","E","P","S",1847066624,7168,1,28184,2816,-201341694>>, <<"N","E","P","B",589299712,4096,1,4896,2304,-50738942>> >>

Row4 == <<
    <<"N","E","C","S",-66191360,3584,1,783,2048,1121373698>>, <<"N","E","C","S",-668598272,5632,1,54310,512,2143605506>>,
    <<"N","E","C","S",790757376,8192,1,11298,2816,-1053238782>>, <<"N","E","C","S",-1357643776,2048,1,44308,1792,1842732546>>,
    <<"N","E","C","B",-1540554752,5120,1,37421,1024,1933042946>>, <<"N","E","P","B",321257472,1024,1,3366,2816,-597366526>>,
    <<"N","E","C","S",774438912,1280,2,15145,1792,-967642622>>, <<"N","E","P","B",-651165696,2560,2,57648,1280,227473666>>,
    <<"N","E","P","S",134938624,6656,2,63242,2560,1908145666>>, <<"N","E","P","S",-248643584,7168,2,61998,2560,808847107>>,
    <<"I","g","P","S",1092485120,8192,2,12062,768,1199312131>>, <<"N","E","C","B",118095872,5888,1,65289,3328,750588419>>,
    <<"N","E","C","S",773128192,6656,1,12821,1536,1733171459>>, <<"N","E","P","S",-117374976,4096,2,59393,1536,1287986947>>,
    <<"N","E","C","B",1107689472,4352,2,18694,3072,-2062801149>>, <<"N","E","P","S",1831731200,4096,1,27950,2816,1048261635>>,
    <<"N","E","P","B",-1559953408,3840,1,40709,512,1103575299>>, <<"N","E","P","B",438370304,8192,1,7201,768,2068529411>>,
    <<"N","E","C","S",-200278016,1280,2,63504,2816,1329678339>>, <<"N","E","C","B",-1996226560,1792,2,38660,1792,-2098835709>>,
    <<"N","E","P","B",-1221853184,7168,1,50988,1792,-606579709>>, <<"N","E","P","S",50593792,2816,2,62211,768,2136562947>>,
    <<"N","E","P","B",1931673600,7424,1,30243,512,-2036964349>>, <<"N","E","P","B",-1910702080,5888,2,33565,512,1513188611>>,
    <<"N","E","C","S",739115008,5120,2,15886,1280,-1707773181>>, <<"N","E","C","B",-485556224,5888,1,58895,1024,-2116454141>>,
    <<"N","E","C","B",1278869504,6656,1,20538,1280,-1969521149>>, <<"N","E","P","B",-1240334336,5632,1,41746,1792,2001175043>>,
    <<"N","E","P","S",-534708224,7680,2,59425,2304,209685507>>, <<"N","E","C","S",388300800,3328,2,3621,2816,2142869251>> >>
=============================================================================
